---- MODULE Spec2Model ----
(***************************************************************************)
(* Model of the terminal page renderer of pdf-cli: fit planning, DPI       *)
(* selection, dark-mode colour transforms, dual-page compositing and the   *)
(* staging of PNG files for the terminal image emitter.                    *)
(*                                                                         *)
(* float64 values of the source are modelled as exact rationals <<n, d>>   *)
(* with d > 0, except on the gray path of smartInvert, which is computed   *)
(* in float64 bit for bit; Go's int(x) conversion is truncation toward     *)
(* zero.                                                                   *)
(***************************************************************************)
EXTENDS Integers, Sequences, FiniteSets, TLC

VARIABLES
    cfg,         \* viewer fields and environment a render reads: fitMode, darkMode,
                 \* scaleFactor, the window-size probe, the terminal type, the pages
    call,        \* arguments of the render call in progress (or of the last one)
    plan,        \* what the planner computed for the page rendered last, or NoPlan
    pc,          \* position of the render call: "idle" when none is running
    tempFiles,   \* files in d.tempDir: a set of [name, complete]
    rasterCalls, \* d.doc.ImageDPI calls of the current render, in order
    pageImgs,    \* bounds of the page bitmaps a dual render has produced so far
    composite,   \* bounds and background of the dual composite, or NoComposite
    emitted,     \* what renderWithTermImg was given and did, or NoEmit
    result,      \* what the last render returned to its caller: [lines, outcome],
                 \* with the termWidth and termHeight the caller passed in
    canvas,      \* pixels of a composite canvas: [<<x, y>> -> colour], or NoCanvas
    px,          \* a pixel before and after the dark-mode transform, and after the
                 \* transform was applied to its result again: [src, dst, again],
                 \* with the bounds of the bitmap before and after
    screen,      \* what displayImagePage drew after the render returned, or NoScreen
    detected,    \* the terminal type and cell size the detection returned, or NoProfile
    viewer,      \* DocumentViewer.Run: position, currentPage, the terminal mode, the
                 \* saved terminal state, the temp directory; or NoViewer
    shown,       \* the page displayCurrentPage classified and how it displayed it,
                 \* or NoShown
    picker,      \* FilePicker.Run: query, results, selectedIndex, displayOffset,
                 \* the last key and what Run returned; or NoPicker
    wrapped      \* a text, a width and the lines wrapText and reflowText returned,
                 \* or NoWrapped

renderVars == <<pc, tempFiles, rasterCalls, pageImgs, composite, emitted, result>>

\* state of the components a render call does not touch
otherVars == <<canvas, px, screen, detected>>

\* state of the interactive front end: the viewer loop, the page display, the
\* file picker and the text reflow
uiVars == <<viewer, shown, picker, wrapped>>

vars == <<cfg, call, plan, renderVars, otherVars, uiVars>>

---------------------------------------------------------------------------
(* Arithmetic helpers *)

\* Go's int(float64): truncation toward zero of n/d, d > 0
Trunc(n, d) == IF n >= 0 THEN n \div d ELSE -((-n) \div d)

\* smallest integer >= n/d, d > 0
CeilDiv(n, d) == -((-n) \div d)

\* a < b for rationals with positive denominators
RatLess(a, b) == a[1] * b[2] < b[1] * a[2]

RatLeq(a, b) == a[1] * b[2] <= b[1] * a[2]

---------------------------------------------------------------------------
(* Terminal geometry: terminal.go *)

\* strings.Contains(s, sub), strings being sequences of characters
Contains(s, sub) ==
    \E i \in 1..(Len(s) - Len(sub) + 1) : SubSeq(s, i, i + Len(sub) - 1) = sub

\* getTerminalSize: term.GetSize, or 80 x 24 when it fails
getTerminalSize(sz) ==
    IF sz.err THEN [cols |-> 80, rows |-> 24] ELSE [cols |-> sz.width, rows |-> sz.height]

\* getTerminalPixelSize: the TIOCGWINSZ pixel extents, or (0, 0) when the
\* ioctl fails or reports a zero extent
getTerminalPixelSize(ws) ==
    IF ~ws.err /\ ws.xpixel > 0 /\ ws.ypixel > 0
    THEN [xpixel |-> ws.xpixel, ypixel |-> ws.ypixel]
    ELSE [xpixel |-> 0, ypixel |-> 0]

\* detectTerminalType: TERM_PROGRAM, then the kitty variables, then the
\* first substring of TERM that matches
detectTerminalType(env) ==
    CASE env.termProgram = "WezTerm"        -> "wezterm"
      [] env.termProgram = "iTerm.app"      -> "iterm2"
      [] env.termProgram = "Apple_Terminal" -> "apple_terminal"
      [] OTHER ->
           IF env.kittyWindowId # "" \/ env.kittyPid # "" THEN "kitty"
           ELSE CASE Contains(env.term, <<"k","i","t","t","y">>)                 -> "kitty"
                  [] Contains(env.term, <<"f","o","o","t">>)                     -> "foot"
                  [] Contains(env.term, <<"a","l","a","c","r","i","t","t","y">>) -> "alacritty"
                  [] Contains(env.term, <<"w","e","z","t","e","r","m">>)         -> "wezterm"
                  [] Contains(env.term, <<"x","t","e","r","m">>)                 -> "xterm"
                  [] Contains(env.term, <<"t","m","u","x">>)                     -> "tmux"
                  [] Contains(env.term, <<"s","c","r","e","e","n">>)             -> "screen"
                  [] OTHER                                                       -> "unknown"

\* the fixed pixel-per-cell table of getTerminalCellSize
FallbackCellSize(termType) ==
    CASE termType = "kitty"     -> <<  <<18, 1>>, <<36, 1>>  >>
      [] termType = "foot"      -> <<  <<15, 1>>, <<25, 1>>  >>
      [] termType = "alacritty" -> <<  <<14, 1>>, <<28, 1>>  >>
      [] termType = "wezterm"   -> <<  <<18, 1>>, <<36, 1>>  >>
      [] termType = "iterm2"    -> <<  <<16, 1>>, <<32, 1>>  >>
      [] termType = "xterm"     -> <<  <<7, 1>>,  <<14, 1>>  >>
      [] OTHER                  -> <<  <<15, 1>>, <<30, 1>>  >>

getTerminalCellSizeMutant(probe, termType) ==
    IF  /\ probe.xpixel > 0 /\ probe.ypixel > 0
        /\ probe.cols > 0 /\ probe.rows > 0
    THEN << <<probe.xpixel, probe.cols>>, <<probe.ypixel, probe.rows>> >>
    ELSE FallbackCellSize(termType)

\* getTerminalCellSize: <<pixelsPerChar, pixelsPerLine>>, each a rational.
\* probe = [xpixel, ypixel, cols, rows] is what the window-size queries return.
getTerminalCellSize(probe, termType) ==
    IF  /\ probe.xpixel > 0 /\ probe.ypixel > 0
        /\ probe.cols > 0 /\ probe.rows > 0
        /\ RatLess(<<4, 1>>, <<probe.xpixel, probe.cols>>)
        /\ RatLess(<<8, 1>>, <<probe.ypixel, probe.rows>>)
    THEN << <<probe.xpixel, probe.cols>>, <<probe.ypixel, probe.rows>> >>
    ELSE FallbackCellSize(termType)

---------------------------------------------------------------------------
(* Fit planning: savePageAsImage / renderPageToImage *)

horizontalPadding == 4
verticalPadding == 3

\* scale := d.scaleFactor; if scale == 0 { scale = 1.0 }
EffectiveScale(scaleFactor) == IF scaleFactor[1] = 0 THEN <<1, 1>> ELSE scaleFactor

TargetPixelsMutant(termExtent, padding, cell, scale) ==
    Trunc(termExtent * cell[1] * scale[1], cell[2] * scale[2])

\* int(float64(termExtent - padding) * pixelsPerCell * scale)
TargetPixels(termExtent, padding, cell, scale) ==
    Trunc((termExtent - padding) * cell[1] * scale[1], cell[2] * scale[2])

\* int(float64(x) * aspectRatio), aspectRatio = pageHeightAt72 / pageWidthAt72
TimesAspect(x, w72, h72) == Trunc(x * h72, w72)

\* int(float64(x) / aspectRatio)
OverAspect(x, w72, h72) == Trunc(x * w72, h72)

FitHeightMutant(tw, th, w72, h72) ==
    [w |-> OverAspect(th, w72, h72), h |-> th]

\* case "height"
FitHeight(tw, th, w72, h72) ==
    LET fw == OverAspect(th, w72, h72)
    IN  IF fw > tw
        THEN [w |-> tw, h |-> TimesAspect(tw, w72, h72)]
        ELSE [w |-> fw, h |-> th]

FitWidthMutant(tw, th, w72, h72) ==
    LET fh == TimesAspect(tw, w72, h72)
    IN  IF fh > th
        THEN [w |-> OverAspect(th, w72, h72), h |-> th]
        ELSE [w |-> tw, h |-> fh]

\* case "width"
FitWidth(tw, th, w72, h72) ==
    [w |-> tw, h |-> TimesAspect(tw, w72, h72)]

FitAutoMutant(tw, th, w72, h72) ==
    [w |-> tw, h |-> TimesAspect(tw, w72, h72)]

\* default: "auto"
FitAuto(tw, th, w72, h72) ==
    LET fh == TimesAspect(tw, w72, h72)
    IN  IF fh > th
        THEN [w |-> OverAspect(th, w72, h72), h |-> th]
        ELSE [w |-> tw, h |-> fh]

\* switch d.fitMode
FinalDims(fitMode, tw, th, w72, h72) ==
    CASE fitMode = "height" -> FitHeight(tw, th, w72, h72)
      [] fitMode = "width"  -> FitWidth(tw, th, w72, h72)
      [] OTHER              -> FitAuto(tw, th, w72, h72)

\* float64(final) / float64(pageAt72) * 72.0
DpiFor(final, at72) == <<final * 72, at72>>

SelectDpiMutant(dpiForWidth, dpiForHeight) ==
    IF RatLess(dpiForHeight, dpiForWidth) THEN dpiForWidth ELSE dpiForHeight

\* dpi := dpiForWidth; if dpiForHeight < dpi { dpi = dpiForHeight }
SelectDpi(dpiForWidth, dpiForHeight) ==
    IF RatLess(dpiForHeight, dpiForWidth) THEN dpiForHeight ELSE dpiForWidth

minDPI == 36

\* maxDPI := 300.0; if termType != "kitty" { maxDPI = 100.0 }
maxDPI(termType) == IF termType # "kitty" THEN 100 ELSE 300

ClampDpiMutant(dpi, termType) ==
    IF RatLess(dpi, <<minDPI, 1>>) THEN <<minDPI, 1>> ELSE dpi

\* if dpi < 36 { dpi = 36 }; if dpi > maxDPI { dpi = maxDPI }
ClampDpi(dpi, termType) ==
    LET lo == IF RatLess(dpi, <<minDPI, 1>>) THEN <<minDPI, 1>> ELSE dpi
    IN  IF RatLess(<<maxDPI(termType), 1>>, lo) THEN <<maxDPI(termType), 1>> ELSE lo

\* The external rasterizer d.doc.ImageDPI(page, dpi): a page whose bitmap at
\* 72 DPI is w72 x h72 comes back with each extent scaled by dpi/72 and
\* rounded up to whole pixels.
ImageDPI(page, dpi) ==
    [w |-> CeilDiv(page.w72 * dpi[1], 72 * dpi[2]),
     h |-> CeilDiv(page.h72 * dpi[1], 72 * dpi[2])]

CellsForMutant(pixelExtent, cell) == Trunc(pixelExtent * cell[2], cell[1])

\* int(float64(pixelExtent)/pixelsPerCell) + 1
CellsFor(pixelExtent, cell) == Trunc(pixelExtent * cell[2], cell[1]) + 1

ClampLinesMutant(lines, termHeight) == lines

\* actualLines, clamped: if actualLines > termHeight { actualLines = termHeight }
ClampLines(lines, termHeight) == IF lines > termHeight THEN termHeight ELSE lines

RefDpiMutant == <<36, 1>>

\* the DPI of the reference render: d.doc.ImageDPI(pageNum, 72.0)
RefDpi == <<72, 1>>

\* The computation of savePageAsImage between its two rasterizer calls and
\* after the second one, for a page whose reference render succeeded.
PlanFor(c, page, termWidth, termHeight, termType) ==
    LET cell  == getTerminalCellSize(c.probe, termType)
        scale == EffectiveScale(c.scaleFactor)
        tw    == TargetPixels(termWidth, horizontalPadding, cell[1], scale)
        th    == TargetPixels(termHeight, verticalPadding, cell[2], scale)
        ref   == ImageDPI(page, RefDpi)
        fin   == FinalDims(c.fitMode, tw, th, ref.w, ref.h)
        dw    == DpiFor(fin.w, ref.w)
        dh    == DpiFor(fin.h, ref.h)
        raw   == SelectDpi(dw, dh)
        dpi   == ClampDpi(raw, termType)
        img   == ImageDPI(page, dpi)
    IN  [targetPixelWidth  |-> tw,
         targetPixelHeight |-> th,
         finalWidth        |-> fin.w,
         finalHeight       |-> fin.h,
         dpiForWidth       |-> dw,
         dpiForHeight      |-> dh,
         rawDpi            |-> raw,
         maxDPI            |-> maxDPI(termType),
         dpi               |-> dpi,
         actualWidth       |-> img.w,
         actualHeight      |-> img.h,
         rawLines          |-> CellsFor(img.h, cell[2]),
         actualLines       |-> ClampLines(CellsFor(img.h, cell[2]), termHeight),
         imageWidthInChars |-> CellsFor(img.w, cell[1])]

---------------------------------------------------------------------------
(* Page rendering and compositing: renderPageImageAligned, renderDualComposite *)

\* fmt.Sprintf("page_%d.png", pageNum)
PageFileName(pageNum) == "page_" \o ToString(pageNum) \o ".png"

\* the staged file of a call: page_<N>.png, or dual.png for a composite
StagedName(c) == IF c.kind = "dual" THEN "dual.png" ELSE PageFileName(c.page1)

\* os.Create(imagePath): the file exists, truncated, and is not yet written
CreateFile(files, name) ==
    {f \in files : f.name # name} \cup {[name |-> name, complete |-> FALSE]}

\* png.Encode(file, img) succeeded and the file was closed
WriteFile(files, name) ==
    {f \in files : f.name # name} \cup {[name |-> name, complete |-> TRUE]}

\* os.Remove(imagePath) after a failed png.Encode
RemoveOnEncodeFailure(files, name) == {f \in files : f.name # name}

DeferredRemoveMutant(files, name) == files

\* defer os.Remove(imagePath): runs when the render function returns
DeferredRemove(files, name) == {f \in files : f.name # name}

\* switch align { "right", "left", default "center" }; if horizontalOffset < 0 { = 0 }
HorizontalOffset(align, maxWidth, imageWidthInChars) ==
    LET off == CASE align = "right" -> maxWidth - imageWidthInChars
                 [] align = "left"  -> 0
                 [] OTHER           -> Trunc(maxWidth - imageWidthInChars, 2)
    IN  IF off < 0 THEN 0 ELSE off

\* the character box each page of a dual render is planned for
DualPageBox(layout, termWidth, termHeight, which) ==
    IF layout = "vertical"
    THEN [w |-> termWidth, h |-> Trunc(termHeight, 2)]
    ELSE IF which = 1
         THEN [w |-> Trunc(termWidth, 2), h |-> termHeight]
         ELSE [w |-> termWidth - Trunc(termWidth, 2), h |-> termHeight]

CompositeSizeMutant(layout, b1, has2, b2, gap) ==
    IF layout = "vertical"
    THEN [w |-> IF has2 THEN b2.w ELSE b1.w,
          h |-> b1.h + (IF has2 THEN b2.h ELSE 0)]
    ELSE [w |-> b1.w + (IF has2 THEN b2.w ELSE 0),
          h |-> IF has2 THEN b2.h ELSE b1.h]

CompositeSizeSwapped(layout, b1, has2, b2, gap) ==
    IF layout # "vertical"
    THEN [w |-> IF has2 /\ b2.w > b1.w THEN b2.w ELSE b1.w,
          h |-> b1.h + gap + (IF has2 THEN b2.h ELSE 0)]
    ELSE [w |-> b1.w + gap + (IF has2 THEN b2.w ELSE 0),
          h |-> IF has2 /\ b2.h > b1.h THEN b2.h ELSE b1.h]

\* compositeW, compositeH of renderDualComposite; has2 is page2Img != nil
CompositeSize(layout, b1, has2, b2, gap) ==
    IF layout = "vertical"
    THEN [w |-> IF has2 /\ b2.w > b1.w THEN b2.w ELSE b1.w,
          h |-> b1.h + gap + (IF has2 THEN b2.h ELSE 0)]
    ELSE [w |-> b1.w + gap + (IF has2 THEN b2.w ELSE 0),
          h |-> IF has2 /\ b2.h > b1.h THEN b2.h ELSE b1.h]

White == <<255, 255, 255, 255>>
DarkGray == <<30, 30, 30, 255>>

\* bgColor := color.RGBA{255, 255, 255, 255}; if d.darkMode != "" { bgColor = {30, 30, 30, 255} }
BackgroundColor(darkMode) == IF darkMode # "" THEN DarkGray ELSE White

\* image.NewRGBA(image.Rect(0, 0, w, h)): every pixel transparent black
NewRGBA(w, h) == [p \in (0..(w - 1)) \X (0..(h - 1)) |-> <<0, 0, 0, 0>>]

FillBackgroundMutant(img, color) == img

\* draw.Draw(composite, composite.Bounds(), &image.Uniform{bgColor}, image.Point{}, draw.Src)
FillBackground(img, color) == [p \in DOMAIN img |-> color]

InRect(p, r) == r.x0 <= p[1] /\ p[1] < r.x1 /\ r.y0 <= p[2] /\ p[2] < r.y1

\* draw.Draw(composite, r, pageImg, b.Min, draw.Over) of an opaque page: every
\* canvas pixel inside r takes the page pixel that lies at the same offset from b.Min
DrawPage(img, r, page) ==
    [p \in DOMAIN img |->
        IF InRect(p, r)
        THEN [page |-> page, x |-> p[1] - r.x0, y |-> p[2] - r.y0]
        ELSE img[p]]

\* the rectangle page 1 is drawn into: centred on the cross axis
PlacePage1(layout, size, b1) ==
    IF layout = "vertical"
    THEN LET x1 == Trunc(size.w - b1.w, 2)
         IN  [x0 |-> x1, y0 |-> 0, x1 |-> x1 + b1.w, y1 |-> b1.h]
    ELSE LET y1 == Trunc(size.h - b1.h, 2)
         IN  [x0 |-> 0, y0 |-> y1, x1 |-> b1.w, y1 |-> y1 + b1.h]

PlacePage2Mutant(layout, size, b1, b2, gap) ==
    IF layout = "vertical"
    THEN [x0 |-> 0, y0 |-> gap, x1 |-> b2.w, y1 |-> gap + b2.h]
    ELSE [x0 |-> gap, y0 |-> 0, x1 |-> gap + b2.w, y1 |-> b2.h]

\* the rectangle page 2 is drawn into: after page 1 and the gap
PlacePage2(layout, size, b1, b2, gap) ==
    IF layout = "vertical"
    THEN LET x2 == Trunc(size.w - b2.w, 2)
             y2 == b1.h + gap
         IN  [x0 |-> x2, y0 |-> y2, x1 |-> x2 + b2.w, y1 |-> y2 + b2.h]
    ELSE LET x2 == b1.w + gap
             y2 == Trunc(size.h - b2.h, 2)
         IN  [x0 |-> x2, y0 |-> y2, x1 |-> x2 + b2.w, y1 |-> y2 + b2.h]

\* the composite bitmap of renderDualComposite: new canvas, background fill,
\* page 1, then page 2 when there is one
ComposeCanvas(layout, b1, has2, b2, gap, darkMode) ==
    LET size   == CompositeSize(layout, b1, has2, b2, gap)
        blank  == NewRGBA(size.w, size.h)
        filled == FillBackground(blank, BackgroundColor(darkMode))
        with1  == DrawPage(filled, PlacePage1(layout, size, b1), 1)
    IN  IF has2
        THEN DrawPage(with1, PlacePage2(layout, size, b1, b2, gap), 2)
        ELSE with1

---------------------------------------------------------------------------
(* float64 arithmetic, bit for bit, for the gray pixels of smartInvert.    *)
(* A natural number is a sequence of limbs in base 32768, least            *)
(* significant first; a float64 value is [m, e], standing for m * 2^e with *)
(* m of at most 53 bits.                                                   *)

RECURSIVE BigNorm(_)
\* without its most significant zero limbs
BigNorm(a) ==
    IF a # <<>> /\ a[Len(a)] = 0 THEN BigNorm(SubSeq(a, 1, Len(a) - 1)) ELSE a

RECURSIVE BigFromInt(_)
BigFromInt(n) == IF n = 0 THEN <<>> ELSE <<n % 32768>> \o BigFromInt(n \div 32768)

RECURSIVE BigToInt(_)
\* for values below 2^31
BigToInt(a) == IF a = <<>> THEN 0 ELSE a[1] + 32768 * BigToInt(Tail(a))

RECURSIVE BigAddCarry(_, _, _)
BigAddCarry(a, b, c) ==
    IF a = <<>> /\ b = <<>>
    THEN (IF c = 0 THEN <<>> ELSE <<c>>)
    ELSE LET x == IF a = <<>> THEN 0 ELSE a[1]
             y == IF b = <<>> THEN 0 ELSE b[1]
             s == x + y + c
         IN  <<s % 32768>> \o
             BigAddCarry(IF a = <<>> THEN a ELSE Tail(a),
                         IF b = <<>> THEN b ELSE Tail(b), s \div 32768)

BigAdd(a, b) == BigNorm(BigAddCarry(a, b, 0))

RECURSIVE BigSubBorrow(_, _, _)
BigSubBorrow(a, b, c) ==
    IF a = <<>>
    THEN <<>>
    ELSE LET y == IF b = <<>> THEN 0 ELSE b[1]
             s == a[1] - y - c
         IN  <<(s + 32768) % 32768>> \o
             BigSubBorrow(Tail(a), IF b = <<>> THEN b ELSE Tail(b),
                          IF s < 0 THEN 1 ELSE 0)

\* a - b for a >= b
BigSub(a, b) == BigNorm(BigSubBorrow(a, b, 0))

RECURSIVE BigMulSmallCarry(_, _, _)
BigMulSmallCarry(a, k, c) ==
    IF a = <<>>
    THEN (IF c = 0 THEN <<>> ELSE <<c>>)
    ELSE LET s == a[1] * k + c
         IN  <<s % 32768>> \o BigMulSmallCarry(Tail(a), k, s \div 32768)

\* a * k for 0 <= k < 32768
BigMulSmall(a, k) == BigNorm(BigMulSmallCarry(a, k, 0))

RECURSIVE BigMul(_, _)
BigMul(a, b) ==
    IF b = <<>> \/ a = <<>>
    THEN <<>>
    ELSE BigAdd(BigMulSmall(a, b[1]),
                LET rest == BigMul(a, Tail(b))
                IN  IF rest = <<>> THEN <<>> ELSE <<0>> \o rest)

RECURSIVE BigDivSmallFrom(_, _, _, _)
\* long division from the most significant limb i down, r the running remainder
BigDivSmallFrom(a, k, i, r) ==
    IF i = 0
    THEN [q |-> <<>>, r |-> r]
    ELSE LET cur  == r * 32768 + a[i]
             rest == BigDivSmallFrom(a, k, i - 1, cur % k)
         IN  [q |-> Append(rest.q, cur \div k), r |-> rest.r]

\* quotient and remainder of a by k, 0 < k <= 32768
BigDivSmall(a, k) ==
    LET d == BigDivSmallFrom(a, k, Len(a), 0)
    IN  [q |-> BigNorm(d.q), r |-> d.r]

RECURSIVE Pow2(_)
Pow2(n) == IF n = 0 THEN 1 ELSE 2 * Pow2(n - 1)

RECURSIVE BitsOfInt(_)
BitsOfInt(n) == IF n = 0 THEN 0 ELSE 1 + BitsOfInt(n \div 2)

\* the number of significant bits of a
BigBits(a) == IF a = <<>> THEN 0 ELSE 15 * (Len(a) - 1) + BitsOfInt(a[Len(a)])

\* a * 2^n
BigShiftLeft(a, n) ==
    IF a = <<>>
    THEN <<>>
    ELSE [i \in 1..(n \div 15) |-> 0] \o BigMulSmall(a, Pow2(n % 15))

\* floor(a / 2^n)
BigShiftRight(a, n) ==
    IF n \div 15 >= Len(a)
    THEN <<>>
    ELSE BigDivSmall(SubSeq(a, n \div 15 + 1, Len(a)), Pow2(n % 15)).q

\* bit i of a, bit 0 the least significant
BigBit(a, i) ==
    IF i \div 15 >= Len(a) THEN 0 ELSE (a[i \div 15 + 1] \div Pow2(i % 15)) % 2

\* some bit of a below bit i is set
BigLowBits(a, i) ==
    \/ \E j \in 1..Len(a) : j <= i \div 15 /\ a[j] # 0
    \/ i \div 15 < Len(a) /\ a[i \div 15 + 1] % Pow2(i % 15) # 0

\* a / 2^n rounded to nearest, ties to even; sticky says that a stands for a
\* value slightly above a
BigRoundShift(a, n, sticky) ==
    LET q    == BigShiftRight(a, n)
        half == BigBit(a, n - 1) = 1
        low  == sticky \/ BigLowBits(a, n - 1)
        odd  == BigBit(q, 0) = 1
    IN  IF half /\ (low \/ odd) THEN BigAdd(q, <<1>>) ELSE q

\* the float64 nearest to m * 2^e (plus a little when sticky)
Float64(m, e, sticky) ==
    IF BigBits(m) <= 53
    THEN [m |-> m, e |-> e]
    ELSE [m |-> BigRoundShift(m, BigBits(m) - 53, sticky), e |-> e + BigBits(m) - 53]

\* the float64 nearest to the decimal or quotient n / d, for integers
\* 0 <= n < 32768 and 0 < d < 32768
FloatQuot(n, d) ==
    LET qr == BigDivSmall(BigShiftLeft(BigFromInt(n), 75), d)
    IN  Float64(qr.q, -75, qr.r # 0)

\* x * y before rounding
FloatMulExact(x, y) == [m |-> BigMul(x.m, y.m), e |-> x.e + y.e]

\* x + y before rounding
FloatAddExact(x, y) ==
    LET e == IF x.e < y.e THEN x.e ELSE y.e
    IN  [m |-> BigAdd(BigShiftLeft(x.m, x.e - e), BigShiftLeft(y.m, y.e - e)), e |-> e]

\* x - y before rounding, for x >= y
FloatSubExact(x, y) ==
    LET e == IF x.e < y.e THEN x.e ELSE y.e
    IN  [m |-> BigSub(BigShiftLeft(x.m, x.e - e), BigShiftLeft(y.m, y.e - e)), e |-> e]

FloatRound(x) == Float64(x.m, x.e, FALSE)

FloatMul(x, y) == FloatRound(FloatMulExact(x, y))
FloatAdd(x, y) == FloatRound(FloatAddExact(x, y))
FloatSub(x, y) == FloatRound(FloatSubExact(x, y))

\* int(x) for x >= 0
FloatTrunc(x) ==
    BigToInt(IF x.e >= 0 THEN BigShiftLeft(x.m, x.e) ELSE BigShiftRight(x.m, -x.e))

---------------------------------------------------------------------------
(* Dark-mode colour transforms: smartInvert, simpleInvert *)

\* color.RGBA.RGBA(): an 8-bit channel widened to 16 bits (c |= c << 8)
RGBA16(c8) == c8 * 256 + c8

\* uint8(v) of a uint32
ToUint8(v) == v % 256

InvertChannelMutant(c16) == 255 - (c16 \div 256)

\* 30 + (255-c>>8)*225/255 on the 16-bit channel c: >> binds tighter than -,
\* and no intermediate value leaves the uint32 range
InvertChannel(c16) == 30 + (((255 - (c16 \div 256)) * 225) \div 255)

PassAlphaMutant(a16) == 255

\* A: uint8(a >> 8) on the 16-bit alpha a
PassAlpha(a16) == ToUint8(a16 \div 256)

\* one pixel of simpleInvert: dst.Set(x, y, color.RGBA{uint8(nr), uint8(ng), uint8(nb), uint8(a >> 8)})
simpleInvert(p) ==
    << ToUint8(InvertChannel(RGBA16(p[1]))),
       ToUint8(InvertChannel(RGBA16(p[2]))),
       ToUint8(InvertChannel(RGBA16(p[3]))),
       PassAlpha(RGBA16(p[4])) >>

\* smartInvert works on r8 = float64(r>>8) / 255.0 and its likes.  With
\* M = max, m = min of the three 8-bit channels, sum = M + m and d = M - m
\* every intermediate value is a fraction of the integers below:
\*   l (before) = sum / 510        l (after) = SmartL(sum) / 12750
\*   s = d / SmartD(sum)           h = SmartHue / (6 * d)
\*   q = SmartQ / (12750 * SmartD) p = SmartP / (12750 * SmartD)

\* l = 0.12 + (1.0 - l) * 0.88, as a numerator over 12750
SmartL(sum) == 12750 - 22 * sum

\* the denominator of s: 2.0 - max - min when l > 0.5, else max + min (over 255)
SmartD(sum) == IF sum > 255 THEN 510 - sum ELSE sum

\* switch max { case r: ...; case g: ...; case b: ... }; h is SmartHue / (6 d)
SmartHue(r, g, b) ==
    LET M == IF r >= g /\ r >= b THEN r ELSE IF g >= b THEN g ELSE b
        m == IF r <= g /\ r <= b THEN r ELSE IF g <= b THEN g ELSE b
        d == M - m
    IN  IF M = r THEN (g - b) + (IF g < b THEN 6 * d ELSE 0)
        ELSE IF M = g THEN (b - r) + 2 * d
        ELSE (r - g) + 4 * d

\* q of hslToRGB: l * (1 + s) when l < 0.5, else l + s - l*s
SmartQ(sum, d) ==
    IF 2 * SmartL(sum) < 12750
    THEN SmartL(sum) * (SmartD(sum) + d)
    ELSE SmartL(sum) * SmartD(sum) + d * (12750 - SmartL(sum))

\* p := 2*l - q
SmartP(sum, d) == 2 * SmartL(sum) * SmartD(sum) - SmartQ(sum, d)

\* hueToRGB(p, q, t) for t = tn / (6 d), as a numerator over 12750 * SmartD * d;
\* times 255 it is a numerator over 50 * SmartD * d
hueToRGB(pn, qn, tn, d) ==
    LET t1 == IF tn < 0 THEN tn + 6 * d ELSE tn
        t  == IF t1 > 6 * d THEN t1 - 6 * d ELSE t1
    IN  IF t < d THEN pn * (d - t) + qn * t
        ELSE IF t < 3 * d THEN qn * d
        ELSE IF t < 4 * d THEN pn * (t - 3 * d) + qn * (4 * d - t)
        ELSE pn * d

\* uint8(x * 255) for a float64 x of smartInvert with x * 255 = n / dn.  The
\* float64 result differs from the exact one by rounding errors far below
\* one unit, so the truncation is exact unless x * 255 is a whole number,
\* where the computed value may fall just below it.
SmartToUint8(n, dn) ==
    IF n % dn = 0
    THEN { ToUint8(n \div dn), ToUint8(IF n = 0 THEN 0 ELSE n \div dn - 1) }
    ELSE { ToUint8(n \div dn) }

\* l = 0.12 + (1.0-l)*0.88 in float64, the product rounded before the sum
SmartLightness(l) ==
    FloatAdd(FloatQuot(12, 100), FloatMul(FloatSub(FloatQuot(1, 1), l), FloatQuot(88, 100)))

\* the same statement compiled to a fused multiply-add, which rounds once
SmartLightnessFused(l) ==
    FloatRound(FloatAddExact(FloatQuot(12, 100),
                             FloatMulExact(FloatSub(FloatQuot(1, 1), l), FloatQuot(88, 100))))

\* uint8(l * 255) of the new lightness l
SmartGrayChannel(l) == ToUint8(FloatTrunc(FloatMul(l, FloatQuot(255, 1))))

\* the channel smartInvert stores for a gray pixel of 8-bit value v: r8 = g8 =
\* b8 = float64(v) / 255.0, rgbToHSL returns l = (max + min) / 2 = r8 exactly
\* and s = 0, hslToRGB returns l, l, l.  Go may or may not fuse the multiply
\* and the add, depending on the target architecture.
SmartGray(v) ==
    { SmartGrayChannel(SmartLightness(FloatQuot(v, 255))),
      SmartGrayChannel(SmartLightnessFused(FloatQuot(v, 255))) }

\* the colour channels smartInvert can store for the 8-bit channels r, g, b
SmartChannels(r, g, b) ==
    LET M   == IF r >= g /\ r >= b THEN r ELSE IF g >= b THEN g ELSE b
        m   == IF r <= g /\ r <= b THEN r ELSE IF g <= b THEN g ELSE b
        sum == M + m
        d   == M - m
    IN  IF d = 0
        THEN \* rgbToHSL returns s = 0 and hslToRGB returns l, l, l
             { <<c, c, c>> : c \in SmartGray(M) }
        ELSE LET pn == SmartP(sum, d)
                 qn == SmartQ(sum, d)
                 hn == SmartHue(r, g, b)
                 dn == 50 * SmartD(sum) * d
             IN  { <<nr, ng, nb>> :
                     nr \in SmartToUint8(hueToRGB(pn, qn, hn + 2 * d, d), dn),
                     ng \in SmartToUint8(hueToRGB(pn, qn, hn, d), dn),
                     nb \in SmartToUint8(hueToRGB(pn, qn, hn - 2 * d, d), dn) }

\* one pixel of smartInvert: the pixels dst.Set can store
smartInvert(p) ==
    { <<c[1], c[2], c[3], PassAlpha(RGBA16(p[4]))>> :
        c \in SmartChannels(RGBA16(p[1]) \div 256, RGBA16(p[2]) \div 256,
                            RGBA16(p[3]) \div 256) }

\* switch d.darkMode { case "smart": smartInvert(img); case "invert":
\* simpleInvert(img) } on one pixel: the pixels the result can hold
ApplyDarkMode(darkMode, p) ==
    CASE darkMode = "smart"  -> smartInvert(p)
      [] darkMode = "invert" -> {simpleInvert(p)}
      [] OTHER               -> {p}

\* Bounds() of the bitmap the dark-mode switch yields: image.NewRGBA(bounds)
\* for the two transforms, the rasterized bitmap itself otherwise
DarkModeBounds(darkMode, bounds) ==
    CASE darkMode \in {"smart", "invert"} ->
           [x0 |-> bounds.x0, y0 |-> bounds.y0, x1 |-> bounds.x1, y1 |-> bounds.y1]
      [] OTHER -> bounds

---------------------------------------------------------------------------
(* Inputs *)

\* "" is the zero value of the field: it takes the default branch, like "auto"
FitModes == {"height", "width", "auto", ""}
DarkModes == {"", "smart", "invert"}

\* window-size probes: no pixel report, 18x36 cells, 8x16 cells,
\* fractional cells (12.5 x 29.17), implausibly small cells (3.75 x 16.67)
Probes ==
    { [xpixel |-> 0,    ypixel |-> 0,    cols |-> 80, rows |-> 24],
      [xpixel |-> 1440, ypixel |-> 1440, cols |-> 80, rows |-> 40],
      [xpixel |-> 640,  ypixel |-> 384,  cols |-> 80, rows |-> 24],
      [xpixel |-> 1000, ypixel |-> 700,  cols |-> 80, rows |-> 24],
      [xpixel |-> 300,  ypixel |-> 400,  cols |-> 80, rows |-> 24] }

\* user zoom: unset (0), 1/2, 1, 3/2
ScaleFactors == { <<0, 1>>, <<1, 2>>, <<1, 1>>, <<3, 2>> }

\* page bitmaps at 72 DPI: aspect 1.414, its landscape, US letter, A4,
\* a tall strip, a wide strip, a small square, a nearly square page
Pages ==
    { [w72 |-> 500,  h72 |-> 707],
      [w72 |-> 707,  h72 |-> 500],
      [w72 |-> 612,  h72 |-> 792],
      [w72 |-> 595,  h72 |-> 842],
      [w72 |-> 100,  h72 |-> 1000],
      [w72 |-> 1000, h72 |-> 100],
      [w72 |-> 50,   h72 |-> 50],
      [w72 |-> 361,  h72 |-> 360] }

PlanTermTypes == {"kitty", "foot", "xterm", "unknown"}
PlanWidths  == {2, 4, 5, 22, 40, 80, 120}
PlanHeights == {1, 3, 4, 12, 21, 40}

NoPlan == [none |-> TRUE]
NoCall == [kind |-> "none"]
NoComposite == [none |-> TRUE]
NoEmit == [none |-> TRUE]
NoResult == [lines |-> -1, outcome |-> "none", termWidth |-> 0, termHeight |-> 0]

\* page numbers are 0-based in the source; cfg.pages is a sequence
PageOf(c, pageNum) == c.pages[pageNum + 1]

\* a call of renderPageImageAligned(pageNum, maxWidth, maxHeight, align)
SingleCall(pageNum, maxWidth, maxHeight, align) ==
    [kind |-> "single", page1 |-> pageNum, page2 |-> 0, hasPage2 |-> FALSE,
     termWidth |-> maxWidth, termHeight |-> maxHeight, align |-> align,
     layout |-> "", gap |-> 0]

\* a call of renderDualComposite(page1, page2, hasPage2, termWidth, termHeight, layout, gap)
DualCall(page1, page2, hasPage2, termWidth, termHeight, layout, gap) ==
    [kind |-> "dual", page1 |-> page1, page2 |-> page2, hasPage2 |-> hasPage2,
     termWidth |-> termWidth, termHeight |-> termHeight, align |-> "center",
     layout |-> layout, gap |-> gap]

NoCanvas == <<>>
NoPixel == [none |-> TRUE]

NoScreen == [none |-> TRUE]

CanvasIdle == canvas = NoCanvas
ColorIdle == px = NoPixel
NoProfile == [none |-> TRUE]

ScreenIdle == screen = NoScreen
DetectIdle == detected = NoProfile
OthersIdle == CanvasIdle /\ ColorIdle /\ ScreenIdle /\ DetectIdle

NoViewer == [pc |-> "none"]
NoShown == [contentType |-> "none"]
NoPicker == [pc |-> "none"]
NoWrapped == [text |-> <<>>, width |-> 0, lines |-> <<>>, done |-> FALSE]

ViewerIdle == viewer = NoViewer
ShownIdle == shown = NoShown
PickerIdle == picker = NoPicker
WrappedIdle == wrapped = NoWrapped
UiIdle == ViewerIdle /\ ShownIdle /\ PickerIdle /\ WrappedIdle

RenderIdle ==
    /\ pc = "idle"
    /\ tempFiles = {}
    /\ rasterCalls = <<>>
    /\ pageImgs = <<>>
    /\ composite = NoComposite
    /\ emitted = NoEmit
    /\ result = NoResult

---------------------------------------------------------------------------
(* SpecPlan: the planning computation of savePageAsImage applied to every   *)
(* input of the sets, with both rasterizer calls succeeding                 *)

PlanInit ==
    /\ cfg \in [fitMode : FitModes, darkMode : {""}, scaleFactor : ScaleFactors,
                probe : Probes, termType : PlanTermTypes,
                pages : {<<p>> : p \in Pages}]
    /\ \E w \in PlanWidths, h \in PlanHeights : call = SingleCall(0, w, h, "center")
    /\ plan = NoPlan
    /\ RenderIdle
    /\ UiIdle
    /\ OthersIdle

PlanPage ==
    /\ plan = NoPlan
    /\ plan' = PlanFor(cfg, PageOf(cfg, call.page1), call.termWidth, call.termHeight,
                       cfg.termType)
    /\ UNCHANGED <<cfg, call, renderVars, otherVars, uiVars>>

PlanNext == PlanPage

SpecPlan == PlanInit /\ [][PlanNext]_vars

Planned == plan # NoPlan

IsAuto == cfg.fitMode \notin {"height", "width"}

\* C1: in fit mode auto (any fitMode other than height/width) the planned
\* final size never exceeds the target width nor the target height.
C1_AutoWithinBothTargets ==
    (Planned /\ IsAuto) =>
        /\ plan.finalWidth <= plan.targetPixelWidth
        /\ plan.finalHeight <= plan.targetPixelHeight

\* an auto plan whose width-first height overflowed and was re-fixed
C1_Witness ==
    /\ Planned /\ IsAuto
    /\ plan.targetPixelWidth > 0 /\ plan.targetPixelHeight > 0
    /\ plan.finalHeight = plan.targetPixelHeight
    /\ plan.finalWidth < plan.targetPixelWidth

\* C2: in fit mode height the planned final width never exceeds the target
\* width.
C2_HeightModeWidthBounded ==
    (Planned /\ cfg.fitMode = "height") =>
        plan.finalWidth <= plan.targetPixelWidth

\* a height plan whose derived width overflowed and was re-fixed to the target
C2_Witness ==
    /\ Planned /\ cfg.fitMode = "height"
    /\ plan.targetPixelWidth > 0
    /\ plan.finalWidth = plan.targetPixelWidth
    /\ plan.finalHeight < plan.targetPixelHeight

\* C3: the DPI handed to the final rasterizer call lies in [36, 300] for
\* kitty and in [36, 100] for every other terminal type.
C3_DpiClamped ==
    Planned =>
        /\ RatLeq(<<36, 1>>, plan.dpi)
        /\ cfg.termType = "kitty" => RatLeq(plan.dpi, <<300, 1>>)
        /\ cfg.termType # "kitty" => RatLeq(plan.dpi, <<100, 1>>)

\* a non-kitty plan whose computed DPI was above 100 and was cut to 100
C3_Witness ==
    /\ Planned /\ cfg.termType # "kitty"
    /\ RatLess(<<100, 1>>, plan.rawDpi)
    /\ plan.dpi = <<100, 1>>

IsScenarioC5 ==
    /\ getTerminalCellSize(cfg.probe, cfg.termType) = << <<18, 1>>, <<36, 1>> >>
    /\ call.termWidth = 80 /\ call.termHeight = 40
    /\ PageOf(cfg, 0) = [w72 |-> 500, h72 |-> 707]
    /\ IsAuto
    /\ EffectiveScale(cfg.scaleFactor) = <<1, 1>>

\* C5: 18x36 cells, 80x40 characters, aspect 1.414, auto, scale 1.0 plan to
\* targets 1368 x 1332 (76 columns, 37 rows), a width-first height of 1934
\* that overflows, and final dimensions 942 x 1332.
C5_Scenario ==
    (Planned /\ IsScenarioC5) =>
        /\ plan.targetPixelWidth = 76 * 18 /\ plan.targetPixelWidth = 1368
        /\ plan.targetPixelHeight = 37 * 36 /\ plan.targetPixelHeight = 1332
        /\ TimesAspect(1368, 500, 707) = 1934
        /\ plan.finalHeight = 1332
        /\ plan.finalWidth = 942

C5_Witness == Planned /\ IsScenarioC5 /\ cfg.termType = "kitty" /\ cfg.probe.xpixel = 0

\* the cell size the plan was computed with
PlanCell == getTerminalCellSize(cfg.probe, cfg.termType)

\* C14: floor(p / c) + 1 never under-reports: the character width times the
\* cell width covers the bitmap width, the line count before clamping times
\* the cell height covers the bitmap height, and each is >= ceil(p / c).
C14_CellsNeverUnderReport ==
    Planned =>
        /\ plan.actualWidth >= 0 /\ plan.actualHeight >= 0
        /\ RatLeq(<<plan.actualWidth, 1>>,
                  <<plan.imageWidthInChars * PlanCell[1][1], PlanCell[1][2]>>)
        /\ RatLeq(<<plan.actualHeight, 1>>,
                  <<plan.rawLines * PlanCell[2][1], PlanCell[2][2]>>)
        /\ plan.imageWidthInChars >= CeilDiv(plan.actualWidth * PlanCell[1][2], PlanCell[1][1])
        /\ plan.rawLines >= CeilDiv(plan.actualHeight * PlanCell[2][2], PlanCell[2][1])

\* a bitmap whose width is not a whole number of cells and whose height is
\* (36 lines of 36 pixels, reported as 37)
C14_Witness ==
    /\ Planned
    /\ PlanCell = << <<18, 1>>, <<36, 1>> >>
    /\ plan.actualWidth % 18 # 0
    /\ plan.actualHeight % 36 = 0
    /\ plan.rawLines = plan.actualHeight \div 36 + 1

\* C19: in fit mode width the final width is the target width and the final
\* height is trunc(targetPixelWidth * aspect), whatever the target height:
\* a height above the target height is kept.
C19_WidthModeUnconditional ==
    (Planned /\ cfg.fitMode = "width") =>
        /\ plan.finalWidth = plan.targetPixelWidth
        /\ plan.finalHeight =
             Trunc(plan.targetPixelWidth * PageOf(cfg, 0).h72, PageOf(cfg, 0).w72)

\* a width plan whose height exceeds the target height
C19_Witness ==
    /\ Planned /\ cfg.fitMode = "width"
    /\ plan.targetPixelWidth > 0 /\ plan.targetPixelHeight > 0
    /\ plan.finalWidth = plan.targetPixelWidth
    /\ plan.finalHeight > plan.targetPixelHeight

---------------------------------------------------------------------------
(* Spec: the render calls of the viewer, step by step.  A step ends at each *)
(* call that can fail (MkdirAll, the rasterizer, os.Create, png.Encode, the *)
(* emitter); the failure of each is a nondeterministic choice.              *)

MaxGap == 2

RenderProbes ==
    { [xpixel |-> 0,   ypixel |-> 0,   cols |-> 80, rows |-> 24],
      [xpixel |-> 640, ypixel |-> 384, cols |-> 80, rows |-> 24] }

RenderDocs ==
    { << [w72 |-> 500, h72 |-> 707], [w72 |-> 707, h72 |-> 500] >>,
      << [w72 |-> 50,  h72 |-> 50],  [w72 |-> 100, h72 |-> 1000] >> }

RenderWidths  == {3, 40}
RenderHeights == {-1, 0, 2, 12}
Aligns  == {"left", "center", "right"}
Layouts == {"vertical", "horizontal"}

Init ==
    /\ cfg \in [fitMode : {"height", "width", "auto"}, darkMode : DarkModes,
                scaleFactor : { <<0, 1>>, <<1, 2>> }, probe : RenderProbes,
                termType : {"kitty", "wezterm", "foot"}, pages : RenderDocs]
    /\ call = NoCall
    /\ plan = NoPlan
    /\ RenderIdle
    /\ UiIdle
    /\ OthersIdle

\* the page the next rasterizer call renders
CurPage == IF call.kind = "dual" /\ Len(pageImgs) = 1 THEN call.page2 ELSE call.page1

\* the character box that page is planned for
CurBox ==
    IF call.kind = "dual"
    THEN DualPageBox(call.layout, call.termWidth, call.termHeight, Len(pageImgs) + 1)
    ELSE [w |-> call.termWidth, h |-> call.termHeight]

\* a render function called with (termWidth, termHeight) returns: its locals
\* are gone, the caller has the line count
ReturnAt(lines, outcome, termWidth, termHeight) ==
    /\ pc' = "idle"
    /\ result' = [lines |-> lines, outcome |-> outcome,
                  termWidth |-> termWidth, termHeight |-> termHeight]
    /\ call' = NoCall
    /\ plan' = NoPlan
    /\ rasterCalls' = <<>>
    /\ pageImgs' = <<>>
    /\ composite' = NoComposite
    /\ emitted' = NoEmit

\* a return of the render call in progress
Return(lines, outcome) == ReturnAt(lines, outcome, call.termWidth, call.termHeight)

\* renderPageImageAligned up to savePageAsImage's os.MkdirAll; the display
\* function that calls it draws on the screen displayCurrentPage has cleared
RenderPageImageAligned ==
    /\ pc = "idle"
    /\ \E pageNum \in {0, 1}, w \in RenderWidths, h \in RenderHeights, align \in Aligns :
        IF h <= 0
        THEN ReturnAt(0, "no-height", w, h)
        ELSE /\ call' = SingleCall(pageNum, w, h, align)
             /\ pc' = "mkdir"
             /\ result' = NoResult
             /\ UNCHANGED <<plan, rasterCalls, pageImgs, composite, emitted>>
    /\ screen' = NoScreen
    /\ UNCHANGED <<cfg, canvas, px, detected, tempFiles, uiVars>>

\* renderDualComposite up to the first renderPageToImage, on a cleared screen
RenderDualComposite ==
    /\ pc = "idle"
    /\ \E hasPage2 \in BOOLEAN, w \in RenderWidths, h \in RenderHeights,
          layout \in Layouts, gap \in 0..MaxGap :
        IF h <= 0
        THEN ReturnAt(0, "no-height", w, h)
        ELSE /\ call' = DualCall(0, 1, hasPage2, w, h, layout, gap)
             /\ pc' = "ref"
             /\ result' = NoResult
             /\ UNCHANGED <<plan, rasterCalls, pageImgs, composite, emitted>>
    /\ screen' = NoScreen
    /\ UNCHANGED <<cfg, canvas, px, detected, tempFiles, uiVars>>

\* os.MkdirAll(d.tempDir, 0o755)
MkdirTemp ==
    /\ pc = "mkdir"
    /\ \E ok \in BOOLEAN :
        IF ok
        THEN /\ pc' = (IF call.kind = "dual" THEN "create" ELSE "ref")
             /\ UNCHANGED <<call, plan, rasterCalls, pageImgs, composite, emitted, result>>
        ELSE Return(0, "mkdir-failed")
    /\ UNCHANGED <<cfg, otherVars, tempFiles, uiVars>>

\* testImg, err := d.doc.ImageDPI(pageNum, 72.0)
ReferenceRender ==
    /\ pc = "ref"
    /\ \E ok \in BOOLEAN :
        IF ok
        THEN /\ pc' = "final"
             /\ rasterCalls' = Append(rasterCalls, [page |-> CurPage, dpi |-> RefDpi])
             /\ UNCHANGED <<call, plan, pageImgs, composite, emitted, result>>
        ELSE Return(0, "rasterizer-failed")
    /\ UNCHANGED <<cfg, otherVars, tempFiles, uiVars>>

\* the plan, img, err := d.doc.ImageDPI(pageNum, dpi), the dark-mode transform
\* (which keeps the bounds) and, after the last page of a dual render, the
\* composite
FinalRender ==
    /\ pc = "final"
    /\ LET p == PlanFor(cfg, PageOf(cfg, CurPage), CurBox.w, CurBox.h, cfg.termType)
           imgs == Append(pageImgs, [w |-> p.actualWidth, h |-> p.actualHeight])
       IN  \E ok \in BOOLEAN :
            IF ~ok
            THEN Return(0, "rasterizer-failed")
            ELSE
              /\ rasterCalls' = Append(rasterCalls, [page |-> CurPage, dpi |-> p.dpi])
              /\ plan' = p
              /\ UNCHANGED <<call, emitted, result>>
              /\ IF call.kind = "single"
                 THEN pc' = "create" /\ UNCHANGED <<pageImgs, composite>>
                 ELSE
                   /\ pageImgs' = imgs
                   /\ IF Len(imgs) = 1 /\ call.hasPage2
                      THEN pc' = "ref" /\ UNCHANGED composite
                      ELSE
                        /\ pc' = "mkdir"
                        /\ composite' =
                             [size |-> CompositeSize(call.layout, imgs[1], call.hasPage2,
                                                     imgs[Len(imgs)], call.gap),
                              bgColor |-> BackgroundColor(cfg.darkMode)]
    /\ UNCHANGED <<cfg, otherVars, tempFiles, uiVars>>

\* file, err := os.Create(imagePath)
CreateStagedFile ==
    /\ pc = "create"
    /\ \E ok \in BOOLEAN :
        IF ok
        THEN /\ tempFiles' = CreateFile(tempFiles, StagedName(call))
             /\ pc' = "encode"
             /\ UNCHANGED <<call, plan, rasterCalls, pageImgs, composite, emitted, result>>
        ELSE Return(0, "create-failed") /\ UNCHANGED tempFiles
    /\ UNCHANGED <<cfg, otherVars, uiVars>>

\* png.Encode(file, img); on failure os.Remove(imagePath); file.Close()
EncodePNG ==
    /\ pc = "encode"
    /\ \E ok \in BOOLEAN :
        IF ok
        THEN /\ tempFiles' = WriteFile(tempFiles, StagedName(call))
             /\ pc' = "emit"
             /\ UNCHANGED <<call, plan, rasterCalls, pageImgs, composite, emitted, result>>
        ELSE /\ tempFiles' = RemoveOnEncodeFailure(tempFiles, StagedName(call))
             /\ Return(0, "encode-failed")
    /\ UNCHANGED <<cfg, otherVars, uiVars>>

\* what the caller hands to renderWithTermImg
EmitArgs ==
    LET cell == getTerminalCellSize(cfg.probe, cfg.termType)
    IN  IF call.kind = "dual"
        THEN LET chars == CellsFor(composite.size.w, cell[1])
             IN  [lines |-> ClampLines(CellsFor(composite.size.h, cell[2]), call.termHeight),
                  widthChars |-> chars,
                  offset |-> HorizontalOffset("center", call.termWidth, chars),
                  pixelWidth |-> composite.size.w,
                  pixelHeight |-> composite.size.h]
        ELSE [lines |-> plan.actualLines,
              widthChars |-> plan.imageWidthInChars,
              offset |-> HorizontalOffset(call.align, call.termWidth, plan.imageWidthInChars),
              pixelWidth |-> plan.actualWidth,
              pixelHeight |-> plan.actualHeight]

DrawUnitsMutant(termType) ==
    IF FallbackCellSize(termType) = FallbackCellSize("kitty") THEN "cells" ELSE "pixels"

\* if termType == "kitty" { Width(..).Height(..) } else { WidthPixels(..).HeightPixels(..) }
DrawUnits(termType) == IF termType = "kitty" THEN "cells" ELSE "pixels"

\* the dimensions given to the draw call: (widthChars, estimatedLines) in
\* cells, (pixelWidth, pixelHeight) in pixels
DrawDims(termType, args) ==
    IF DrawUnits(termType) = "cells"
    THEN <<args.widthChars, args.lines>>
    ELSE <<args.pixelWidth, args.pixelHeight>>

EmitterReturnMutant(outcome, estimatedLines) == estimatedLines

\* what renderWithTermImg returns: 0 when termimg.Open or Print failed,
\* else estimatedLines
EmitterReturn(outcome, estimatedLines) == IF outcome = "ok" THEN estimatedLines ELSE 0

\* renderWithTermImg: termimg.Open, then Print in cells (kitty) or pixels
RenderWithTermImg ==
    /\ pc = "emit"
    /\ \E outcome \in {"open-failed", "draw-failed", "ok"} :
        emitted' =
            [path |-> StagedName(call),
             file |-> {f \in tempFiles : f.name = StagedName(call)},
             args |-> EmitArgs,
             units |-> IF outcome = "open-failed" THEN "none" ELSE DrawUnits(cfg.termType),
             drawn |-> IF outcome = "open-failed" THEN <<>>
                       ELSE DrawDims(cfg.termType, EmitArgs),
             outcome |-> outcome,
             returned |-> EmitterReturn(outcome, EmitArgs.lines)]
    /\ pc' = "emitted"
    /\ UNCHANGED <<cfg, otherVars, call, plan, tempFiles, rasterCalls, pageImgs, composite, result, uiVars>>

\* the render function returns what the emitter returned; its deferred
\* os.Remove(imagePath) runs
ReturnFromRender ==
    /\ pc = "emitted"
    /\ tempFiles' = DeferredRemove(tempFiles, StagedName(call))
    /\ Return(emitted.returned, IF emitted.outcome = "ok" THEN "ok" ELSE "emit-failed")
    /\ UNCHANGED <<cfg, otherVars, uiVars>>

\* displayImagePage after renderPageImage returned imageHeight for
\* availableHeight = termHeight - reserved - verticalPadding: the placeholder
\* on rows 2 and 3 when imageHeight <= 0, the rows blanked below the image
\* (imageHeight + 1 + verticalPadding .. termHeight - reserved), and the page
\* info line on row termHeight
DrawAfterRender(imageHeight, availableHeight) ==
    LET failed == imageHeight <= 0
        height == IF failed THEN 2 ELSE imageHeight
    IN  [placeholder |-> IF failed
                         THEN <<"  [Image content - page N]", "  (Image rendering failed)">>
                         ELSE <<>>,
         imageHeight |-> height,
         cleared     |-> (height + 2)..(availableHeight + 1),
         pageInfoRow |-> availableHeight + 3,
         pageInfo    |-> "Image"]

\* the rest of displayImagePage once the render it called has returned
DisplayImagePage ==
    /\ pc = "idle"
    /\ result # NoResult
    /\ screen = NoScreen
    /\ screen' = DrawAfterRender(result.lines, result.termHeight)
    /\ UNCHANGED <<cfg, call, plan, renderVars, canvas, px, detected, uiVars>>

Next ==
    \/ RenderPageImageAligned
    \/ RenderDualComposite
    \/ MkdirTemp
    \/ ReferenceRender
    \/ FinalRender
    \/ CreateStagedFile
    \/ EncodePNG
    \/ RenderWithTermImg
    \/ ReturnFromRender
    \/ DisplayImagePage

Spec == Init /\ [][Next]_vars

Max(a, b) == IF a >= b THEN a ELSE b

Composed == composite # NoComposite

\* bounds of page A and of page B, an absent page B counting as 0 x 0
BoundsA == pageImgs[1]
BoundsB == IF call.hasPage2 THEN pageImgs[2] ELSE [w |-> 0, h |-> 0]

\* C7: the stacked canvas is max(A.width, B.width) wide and
\* A.height + gap + B.height high, an absent B counting as 0 x 0.
C7_StackedCanvas ==
    (Composed /\ call.layout = "vertical") =>
        /\ composite.size.h = BoundsA.h + call.gap + BoundsB.h
        /\ composite.size.w = Max(BoundsA.w, BoundsB.w)

\* a stacked composite of two pages, the second one wider, with a gap
C7_Witness ==
    /\ Composed /\ call.layout = "vertical" /\ call.hasPage2
    /\ call.gap > 0
    /\ pageImgs[2].w > pageImgs[1].w

\* C8: the side-by-side canvas is A.width + gap + B.width wide and
\* max(A.height, B.height) high, an absent B counting as 0 x 0.
C8_SideBySideCanvas ==
    (Composed /\ call.layout = "horizontal") =>
        /\ composite.size.w = BoundsA.w + call.gap + BoundsB.w
        /\ composite.size.h = Max(BoundsA.h, BoundsB.h)

\* a side-by-side composite of two pages, the second one taller, with a gap
C8_Witness ==
    /\ Composed /\ call.layout = "horizontal" /\ call.hasPage2
    /\ call.gap > 0
    /\ pageImgs[2].h > pageImgs[1].h

StagedComplete(files) == [name |-> StagedName(call), complete |-> TRUE] \in files

\* C10: when a render has returned, on any path, none of its staged files is
\* left in the temp directory; the file is fully written when the emitter is
\* invoked and still there when the emitter has returned.
C10_StagedFileScoped ==
    /\ pc = "idle" => tempFiles = {}
    /\ pc = "emit" => StagedComplete(tempFiles)
    /\ pc = "emitted" => StagedComplete(emitted.file) /\ StagedComplete(tempFiles)

\* a render that returned after png.Encode failed on a created file
C10_Witness ==
    /\ pc = "idle"
    /\ result.outcome = "encode-failed"
    /\ tempFiles = {}

Returned == pc = "idle" /\ result # NoResult

\* C11 as stated: a render returns 0 lines only when the rasterizer failed;
\* no geometry input, available height <= 0 included, makes it return 0.
C11_Original ==
    (Returned /\ result.lines = 0) => result.outcome = "rasterizer-failed"

\* C11 amended: a render returns 0 lines exactly when the available height is
\* <= 0 or one of its fallible calls failed (MkdirAll, the rasterizer,
\* os.Create, png.Encode, the emitter); with a positive available height no
\* column or row count makes it return 0, and then it returns at least 1 line.
C11_FailureCauses ==
    Returned =>
        /\ result.lines = 0 <=> result.outcome # "ok"
        /\ result.outcome = "no-height" <=> result.termHeight <= 0
        /\ result.outcome = "ok" => result.lines >= 1
        /\ result.outcome \in {"ok", "no-height", "mkdir-failed", "rasterizer-failed",
                               "create-failed", "encode-failed", "emit-failed"}

\* a successful render into 3 columns and 2 rows, where both targets are negative
C11_Witness ==
    /\ Returned /\ result.outcome = "ok"
    /\ result.termWidth = 3 /\ result.termHeight = 2
    /\ result.lines >= 1

Displayed == Returned /\ screen # NoScreen

\* C12: the emitter returns 0 when opening or drawing the image failed and
\* otherwise exactly the line count it was given; when a render returned 0
\* lines the image-page display shows the two-line placeholder, counts it as
\* 2 lines and still draws the page info line.
C12_EmitterAndPlaceholder ==
    /\ pc = "emitted" =>
         emitted.returned = (IF emitted.outcome \in {"open-failed", "draw-failed"}
                             THEN 0 ELSE emitted.args.lines)
    /\ Displayed =>
         /\ result.lines = 0 => (Len(screen.placeholder) = 2 /\ screen.imageHeight = 2)
         /\ result.lines > 0 => (screen.placeholder = <<>> /\ screen.imageHeight = result.lines)
         /\ screen.pageInfo = "Image"
         /\ screen.pageInfoRow = result.termHeight + 3

\* the placeholder drawn after a render whose emitter failed
C12_Witness ==
    /\ Displayed
    /\ result.outcome = "emit-failed" /\ result.lines = 0
    /\ Len(screen.placeholder) = 2
    /\ screen.pageInfo = "Image"

Drawn == pc = "emitted" /\ emitted.outcome # "open-failed"

\* C13: the draw call gets cell dimensions (columns, lines) exactly when the
\* terminal type is kitty and pixel dimensions for every other type, and the
\* same choice set maxDPI in planning: 300 with cells, 100 with pixels.
C13_DrawUnitsMatchPlanning ==
    Drawn =>
        /\ emitted.units = "cells" <=> cfg.termType = "kitty"
        /\ emitted.units = "pixels" <=> cfg.termType # "kitty"
        /\ emitted.units = "cells" =>
             /\ emitted.drawn = <<emitted.args.widthChars, emitted.args.lines>>
             /\ plan.maxDPI = 300
        /\ emitted.units = "pixels" =>
             /\ emitted.drawn = <<emitted.args.pixelWidth, emitted.args.pixelHeight>>
             /\ plan.maxDPI = 100

\* a draw in pixels on wezterm, whose table cell size equals kitty's
C13_Witness ==
    /\ Drawn /\ cfg.termType = "wezterm"
    /\ emitted.units = "pixels"
    /\ emitted.drawn = <<plan.actualWidth, plan.actualHeight>>
    /\ plan.maxDPI = 100

\* the line count of the bitmap that is emitted, before clamping
EmittedRawLines ==
    IF call.kind = "dual"
    THEN CellsFor(composite.size.h, getTerminalCellSize(cfg.probe, cfg.termType)[2])
    ELSE plan.rawLines

PagesRendered ==
    \/ call.kind = "single" /\ pc \in {"create", "encode", "emit", "emitted"}
    \/ call.kind = "dual" /\ pc \in {"mkdir", "create", "encode", "emit", "emitted"}

\* the bitmap the rasterizer returned for its i-th call
RasterBitmap(i) == ImageDPI(PageOf(cfg, rasterCalls[i].page), rasterCalls[i].dpi)

\* C20: the rasterizer calls of a page render come in pairs: the reference
\* render at exactly 72 DPI, then, only after it succeeded, the final render
\* of the same page at the planned DPI; a successful page render makes exactly
\* these two calls, and the bitmap that is measured, encoded and emitted is
\* that of the final call.
C20_TwoPhaseRasterization ==
    /\ \A i \in 1..Len(rasterCalls) :
        IF i % 2 = 1
        THEN rasterCalls[i].dpi = <<72, 1>>
        ELSE /\ rasterCalls[i].page = rasterCalls[i - 1].page
             /\ RatLeq(<<36, 1>>, rasterCalls[i].dpi)
             /\ RatLeq(rasterCalls[i].dpi, <<maxDPI(cfg.termType), 1>>)
    /\ pc = "final" <=> Len(rasterCalls) % 2 = 1
    /\ pc = "final" => rasterCalls[Len(rasterCalls)].page = CurPage
    /\ (plan # NoPlan /\ Len(rasterCalls) % 2 = 0 /\ Len(rasterCalls) > 0) =>
          rasterCalls[Len(rasterCalls)].dpi = plan.dpi
    /\ (PagesRendered /\ call.kind = "single") =>
          /\ Len(rasterCalls) = 2
          /\ rasterCalls[1].page = call.page1
          /\ plan.actualWidth = RasterBitmap(2).w
          /\ plan.actualHeight = RasterBitmap(2).h
    /\ (PagesRendered /\ call.kind = "dual") =>
          /\ Len(rasterCalls) = 2 * Len(pageImgs)
          /\ Len(pageImgs) = (IF call.hasPage2 THEN 2 ELSE 1)
          /\ \A i \in 1..Len(pageImgs) :
                /\ pageImgs[i] = RasterBitmap(2 * i)
                /\ rasterCalls[2 * i].page = (IF i = 1 THEN call.page1 ELSE call.page2)
    /\ (pc = "emitted" /\ call.kind = "single") =>
          /\ emitted.args.pixelWidth = RasterBitmap(2).w
          /\ emitted.args.pixelHeight = RasterBitmap(2).h

\* an emitted single page whose final render ran at another DPI than 72 and
\* gave a bitmap of another size than the reference bitmap
C20_Witness ==
    /\ pc = "emitted" /\ call.kind = "single" /\ emitted.outcome = "ok"
    /\ Len(rasterCalls) = 2
    /\ rasterCalls[2].dpi # <<72, 1>>
    /\ emitted.args.pixelWidth = RasterBitmap(2).w
    /\ RasterBitmap(2).w # RasterBitmap(1).w

---------------------------------------------------------------------------
(* SpecComposite: the compositor applied to every pair of small page bitmaps *)

MaxDim == 3

PageBounds == [w : 1..MaxDim, h : 1..MaxDim]

CompositeInit ==
    /\ cfg \in [fitMode : {"auto"}, darkMode : DarkModes, scaleFactor : { <<1, 1>> },
                probe : RenderProbes, termType : {"kitty"}, pages : {<<>>}]
    /\ \E has2 \in BOOLEAN, layout \in Layouts, gap \in 0..MaxGap :
        /\ call = DualCall(0, 1, has2, 80, 24, layout, gap)
        /\ pageImgs \in (IF has2 THEN [1..2 -> PageBounds] ELSE [1..1 -> PageBounds])
    /\ plan = NoPlan
    /\ pc = "compose"
    /\ tempFiles = {}
    /\ rasterCalls = <<>>
    /\ composite = NoComposite
    /\ emitted = NoEmit
    /\ result = NoResult
    /\ OthersIdle
    /\ UiIdle

\* the "Build composite image" part of renderDualComposite
ComposePages ==
    /\ pc = "compose"
    /\ composite = NoComposite
    /\ composite' =
         [size |-> CompositeSize(call.layout, pageImgs[1], call.hasPage2,
                                 pageImgs[Len(pageImgs)], call.gap),
          bgColor |-> BackgroundColor(cfg.darkMode)]
    /\ canvas' = ComposeCanvas(call.layout, pageImgs[1], call.hasPage2,
                               pageImgs[Len(pageImgs)], call.gap, cfg.darkMode)
    /\ UNCHANGED <<cfg, call, plan, pc, tempFiles, rasterCalls, pageImgs, emitted, result, px, screen, detected, uiVars>>

CompositeNext == ComposePages

SpecComposite == CompositeInit /\ [][CompositeNext]_vars

RectA == PlacePage1(call.layout, composite.size, pageImgs[1])
RectB == PlacePage2(call.layout, composite.size, pageImgs[1], pageImgs[Len(pageImgs)], call.gap)

Covered(p) == InRect(p, RectA) \/ (call.hasPage2 /\ InRect(p, RectB))

\* C9: the canvas is filled with the background colour before the pages are
\* copied in: every pixel no page covers has the background colour, every
\* covered pixel shows its page, and the background is white when darkMode is
\* unset and (30,30,30,255) exactly when it is smart or invert.
C9_BackgroundFill ==
    Composed =>
        /\ composite.bgColor =
             (IF cfg.darkMode \in {"smart", "invert"} THEN <<30, 30, 30, 255>>
                                                     ELSE <<255, 255, 255, 255>>)
        /\ \A p \in DOMAIN canvas :
            IF Covered(p)
            THEN canvas[p] \notin {composite.bgColor, <<0, 0, 0, 0>>}
            ELSE canvas[p] = composite.bgColor

\* a smart dark-mode composite of two pages with a pixel neither page covers
C9_Witness ==
    /\ Composed /\ call.hasPage2 /\ cfg.darkMode = "smart"
    /\ \E p \in DOMAIN canvas : ~Covered(p) /\ canvas[p] = <<30, 30, 30, 255>>

\* the rectangle r lies inside the canvas
InsideCanvas(r) ==
    /\ 0 <= r.x0 /\ r.x0 <= r.x1 /\ r.x1 <= composite.size.w
    /\ 0 <= r.y0 /\ r.y0 <= r.y1 /\ r.y1 <= composite.size.h

\* the canvas pixels that show page n
PixelsOf(n) == {p \in DOMAIN canvas : canvas[p] \notin {White, DarkGray} /\ canvas[p].page = n}

\* C21: each page is centred on the cross axis and lies inside the canvas:
\* stacked, A at ((W - A.w)/2, 0) and B at ((W - B.w)/2, A.h + gap);
\* side by side, A at (0, (H - A.h)/2) and B at (A.w + gap, (H - B.h)/2);
\* the two rectangles do not overlap, so each page is shown whole.
C21_PagesCentredDisjoint ==
    Composed =>
        LET W == composite.size.w
            H == composite.size.h
            A == pageImgs[1]
            B == pageImgs[Len(pageImgs)]
        IN  /\ InsideCanvas(RectA)
            /\ <<RectA.x1 - RectA.x0, RectA.y1 - RectA.y0>> = <<A.w, A.h>>
            /\ IF call.layout = "vertical"
               THEN <<RectA.x0, RectA.y0>> = <<(W - A.w) \div 2, 0>>
               ELSE <<RectA.x0, RectA.y0>> = <<0, (H - A.h) \div 2>>
            /\ Cardinality(PixelsOf(1)) = A.w * A.h
            /\ call.hasPage2 =>
                 /\ InsideCanvas(RectB)
                 /\ <<RectB.x1 - RectB.x0, RectB.y1 - RectB.y0>> = <<B.w, B.h>>
                 /\ IF call.layout = "vertical"
                    THEN <<RectB.x0, RectB.y0>> = <<(W - B.w) \div 2, A.h + call.gap>>
                    ELSE <<RectB.x0, RectB.y0>> = <<A.w + call.gap, (H - B.h) \div 2>>
                 /\ \A p \in DOMAIN canvas : ~(InRect(p, RectA) /\ InRect(p, RectB))
                 /\ Cardinality(PixelsOf(2)) = B.w * B.h

\* a stacked composite with no gap whose narrower first page is centred one
\* pixel in from the left
C21_Witness ==
    /\ Composed /\ call.hasPage2 /\ call.layout = "vertical" /\ call.gap = 0
    /\ pageImgs[1].w = 1 /\ pageImgs[2].w = 3
    /\ RectA.x0 = 1 /\ RectB.x0 = 0
    /\ RectB.y0 = pageImgs[1].h

---------------------------------------------------------------------------
(* SpecColor: the dark-mode transform applied to every pixel of the set *)

Channels == 0..255

\* pixels: every value on the first channel, the others equal to it or at an
\* end of the range; opaque and half-transparent
InputPixels ==
    UNION { { <<r, g, b, a>> : g \in {r, 0}, b \in {r, 255}, a \in {255, 128} } :
            r \in Channels }

\* bounds of the bitmap handed to the transform: at the origin and away from it
InputBounds ==
    { [x0 |-> 0, y0 |-> 0, x1 |-> 2, y1 |-> 3],
      [x0 |-> 1, y0 |-> 2, x1 |-> 4, y1 |-> 3] }

ColorInit ==
    /\ cfg \in [fitMode : {"auto"}, darkMode : DarkModes, scaleFactor : { <<1, 1>> },
                probe : RenderProbes, termType : {"kitty"}, pages : {<<>>}]
    /\ px \in [src : InputPixels, dst : {<<>>}, again : {<<>>},
                srcBounds : InputBounds, dstBounds : {<<>>}]
    /\ call = NoCall
    /\ plan = NoPlan
    /\ RenderIdle
    /\ UiIdle
    /\ CanvasIdle
    /\ ScreenIdle
    /\ DetectIdle

\* the dark-mode switch of savePageAsImage / renderPageToImage on one pixel
TransformPixel ==
    /\ px.dst = <<>>
    /\ \E dst \in ApplyDarkMode(cfg.darkMode, px.src) :
         px' = [px EXCEPT !.dst = dst,
                          !.dstBounds = DarkModeBounds(cfg.darkMode, px.srcBounds)]
    /\ UNCHANGED <<cfg, call, plan, renderVars, canvas, screen, detected, uiVars>>

\* the transform applied to a bitmap it has produced
TransformAgain ==
    /\ px.dst # <<>>
    /\ px.again = <<>>
    /\ \E again \in ApplyDarkMode(cfg.darkMode, px.dst) :
         px' = [px EXCEPT !.again = again]
    /\ UNCHANGED <<cfg, call, plan, renderVars, canvas, screen, detected, uiVars>>

ColorNext == TransformPixel \/ TransformAgain

SpecColor == ColorInit /\ [][ColorNext]_vars

Transformed == px # NoPixel /\ px.dst # <<>>

\* C6: Invert maps each colour channel v to 30 + (255 - v) * 225 / 255 in
\* integer division, so every output channel lies in 30..255, white maps to
\* (30,30,30,255) and opaque black to (255,255,255,255).
C6_InvertChannels ==
    (Transformed /\ cfg.darkMode = "invert") =>
        /\ \A i \in 1..3 :
            /\ px.dst[i] = 30 + ((255 - px.src[i]) * 225) \div 255
            /\ px.dst[i] >= 30 /\ px.dst[i] <= 255
        /\ px.src = <<255, 255, 255, 255>> => px.dst = <<30, 30, 30, 255>>
        /\ px.src = <<0, 0, 0, 255>> => px.dst = <<255, 255, 255, 255>>

\* the inverted pure white pixel
C6_Witness ==
    /\ Transformed /\ cfg.darkMode = "invert"
    /\ px.src = <<255, 255, 255, 255>>
    /\ px.dst = <<30, 30, 30, 255>>

\* C17: Smart and Invert return a bitmap with the bounds of the input
\* (width, height and origin) and give every pixel the alpha of the input
\* pixel; darkMode none returns the bitmap unchanged.
C17_BoundsAndAlphaKept ==
    Transformed =>
        /\ px.dstBounds = px.srcBounds
        /\ px.dst[4] = px.src[4]
        /\ cfg.darkMode = "" => px.dst = px.src

\* a half-transparent coloured pixel of a bitmap away from the origin,
\* transformed by Smart to another colour with the same alpha
C17_Witness ==
    /\ Transformed /\ cfg.darkMode = "smart"
    /\ px.src[4] = 128 /\ px.dst[4] = 128
    /\ px.src[1] # px.src[2]
    /\ px.dst # px.src
    /\ px.srcBounds.x0 = 1 /\ px.dstBounds.x0 = 1

TransformedTwice == Transformed /\ px.again # <<>>

\* C18 as stated: for every channel value v in 0..255, Invert applied twice
\* yields a value different from v.
C18_Original ==
    (TransformedTwice /\ cfg.darkMode = "invert") =>
        \A i \in 1..3 : px.again[i] # px.src[i]

\* C18 amended: for every channel value v in 0..255 other than 135, Invert
\* applied twice yields a value different from v; 135 is mapped to itself.
C18_InvertTwiceDiffers ==
    (TransformedTwice /\ cfg.darkMode = "invert") =>
        \A i \in 1..3 :
            /\ px.src[i] # 135 => px.again[i] # px.src[i]
            /\ px.src[i] = 135 => (px.dst[i] = 135 /\ px.again[i] = 135)

\* white inverted twice: (30,30,30) and then (228,228,228)
C18_Witness ==
    /\ TransformedTwice /\ cfg.darkMode = "invert"
    /\ px.src = <<255, 255, 255, 255>>
    /\ px.dst = <<30, 30, 30, 255>>
    /\ px.again = <<228, 228, 228, 255>>

\* the pixel handed to Smart is gray: r = g = b
GrayInput == px # NoPixel /\ px.src[1] = px.src[2] /\ px.src[2] = px.src[3]

\* trunc(255 * (0.12 + (1 - v/255) * 0.88)) = trunc(255 - 0.88 v), in exact
\* arithmetic
GrayFormula(v) == (25500 - 88 * v) \div 100

(* C22: Smart maps every gray pixel (v, v, v) to the gray pixel whose       *)
(* channel is trunc(255 * (0.12 + (1 - v/255) * 0.88)); white becomes       *)
(* (30, 30, 30), black (255, 255, 255), and no channel is below 30.         *)
(* float64 rounding makes the code store 188 where the formula gives 189.   *)
C22_GrayFormula ==
    (Transformed /\ cfg.darkMode = "smart" /\ GrayInput) =>
        /\ px.dst[1] = px.dst[2] /\ px.dst[2] = px.dst[3]
        /\ px.dst[1] = GrayFormula(px.src[1])
        /\ px.dst[1] >= 30
        /\ (px.src[1] = 255 => px.dst[1] = 30)
        /\ (px.src[1] = 0 => px.dst[1] = 255)

\* the gray pixel 75 has been transformed: 0.12 + (1 - 75/255) * 0.88 comes
\* out just below 189/255 and the conversion truncates it to 188
C22_Witness ==
    /\ Transformed /\ cfg.darkMode = "smart" /\ GrayInput
    /\ px.src[1] = 75
    /\ GrayFormula(75) = 189
    /\ px.dst[1] = 188 /\ px.dst[2] = 188 /\ px.dst[3] = 188

---------------------------------------------------------------------------
(* SpecDetect: terminal geometry detection applied to every environment,   *)
(* window-size report and terminal-size report of the sets                 *)

\* values of TERM, as sequences of characters
TermValues ==
    { <<>>,
      <<"x","t","e","r","m","-","k","i","t","t","y">>,
      <<"f","o","o","t">>,
      <<"a","l","a","c","r","i","t","t","y">>,
      <<"w","e","z","t","e","r","m">>,
      <<"x","t","e","r","m","-","2","5","6","c","o","l","o","r">>,
      <<"t","m","u","x","-","2","5","6","c","o","l","o","r">>,
      <<"s","c","r","e","e","n">>,
      <<"d","u","m","b">> }

Environments ==
    [termProgram : {"", "WezTerm", "iTerm.app", "Apple_Terminal", "vscode"},
     kittyWindowId : {"", "1"}, kittyPid : {"", "4242"}, term : TermValues]

\* TIOCGWINSZ results: pixel extents 0 (unreported), 300 x 400, 640 x 384, 1440 x 1440
WinSizes ==
    { [err |-> e, xpixel |-> x[1], ypixel |-> x[2]] :
        e \in BOOLEAN, x \in { <<0, 0>>, <<0, 400>>, <<300, 400>>, <<640, 384>>, <<1440, 1440>> } }

\* term.GetSize results
TermSizes ==
    { [err |-> e, width |-> s[1], height |-> s[2]] :
        e \in BOOLEAN, s \in { <<0, 0>>, <<80, 0>>, <<80, 24>>, <<80, 40>>, <<200, 60>> } }

DetectInit ==
    /\ cfg \in [env : Environments, ws : WinSizes, size : TermSizes]
    /\ call = NoCall
    /\ plan = NoPlan
    /\ RenderIdle
    /\ UiIdle
    /\ OthersIdle

\* the window-size values getTerminalCellSize works with
ProbeOf(c) ==
    [xpixel |-> getTerminalPixelSize(c.ws).xpixel,
     ypixel |-> getTerminalPixelSize(c.ws).ypixel,
     cols   |-> getTerminalSize(c.size).cols,
     rows   |-> getTerminalSize(c.size).rows]

\* d.detectTerminalType() and d.getTerminalCellSize()
DetectTerminal ==
    /\ detected = NoProfile
    /\ detected' = [termType |-> detectTerminalType(cfg.env),
                    cell |-> getTerminalCellSize(ProbeOf(cfg), detectTerminalType(cfg.env))]
    /\ UNCHANGED <<cfg, call, plan, renderVars, canvas, px, screen, uiVars>>

DetectNext == DetectTerminal

SpecDetect == DetectInit /\ [][DetectNext]_vars

Detected == detected # NoProfile

\* the window-size reports are all positive and give a cell larger than 4 x 8
LiveMeasurementUsable ==
    /\ ProbeOf(cfg).xpixel > 0 /\ ProbeOf(cfg).ypixel > 0
    /\ ProbeOf(cfg).cols > 0 /\ ProbeOf(cfg).rows > 0
    /\ ProbeOf(cfg).xpixel > 4 * ProbeOf(cfg).cols
    /\ ProbeOf(cfg).ypixel > 8 * ProbeOf(cfg).rows

\* C16: detection always returns a cell wider than 4 and higher than 8: the
\* live measurement (window pixels / window characters) when all extents are
\* positive and the measured cell exceeds (4, 8), else the table entry of the
\* classified family: kitty and wezterm 18x36, foot 15x25, alacritty 14x28,
\* iterm2 16x32, xterm 7x14, anything else 15x30.
C16_CellSizeUsable ==
    Detected =>
        /\ RatLess(<<4, 1>>, detected.cell[1])
        /\ RatLess(<<8, 1>>, detected.cell[2])
        /\ IF LiveMeasurementUsable
           THEN detected.cell = << <<ProbeOf(cfg).xpixel, ProbeOf(cfg).cols>>,
                                   <<ProbeOf(cfg).ypixel, ProbeOf(cfg).rows>> >>
           ELSE detected.cell =
                  CASE detected.termType \in {"kitty", "wezterm"} -> << <<18, 1>>, <<36, 1>> >>
                    [] detected.termType = "foot"      -> << <<15, 1>>, <<25, 1>> >>
                    [] detected.termType = "alacritty" -> << <<14, 1>>, <<28, 1>> >>
                    [] detected.termType = "iterm2"    -> << <<16, 1>>, <<32, 1>> >>
                    [] detected.termType = "xterm"     -> << <<7, 1>>,  <<14, 1>> >>
                    [] OTHER                           -> << <<15, 1>>, <<30, 1>> >>

\* a window report of 300 x 400 pixels for 80 x 24 characters (3.75-pixel
\* cells) on an xterm: the table entry 7 x 14 is returned
C16_Witness ==
    /\ Detected
    /\ ProbeOf(cfg) = [xpixel |-> 300, ypixel |-> 400, cols |-> 80, rows |-> 24]
    /\ detected.termType = "xterm"
    /\ detected.cell = << <<7, 1>>, <<14, 1>> >>

---------------------------------------------------------------------------
(* SpecViewer: DocumentViewer.Run from its first prompt to its return, with *)
(* every key, escape sequence and go-to line of the sets.  A step ends      *)
(* where the code waits for input.                                          *)

MaxPages == 4

\* bytes a read of the keyboard can deliver; "EOF" stands for a read of 0 bytes
KeyBytes == {"q", "j", " ", "k", "g", "h", "ESC", "x", "EOF"}

\* what the 2-byte read after an ESC can deliver
EscapeReads ==
    { <<>>, <<"[">>, <<"x", "A">> } \cup { <<"[", c>> : c \in {"A", "B", "C", "D", "x"} }

\* the characters of a go-to line
LineChars == {" ", "-", "0", "1", "5", "a"}
MaxLineLen == 3
GoToLines == UNION { [1..n -> LineChars] : n \in 0..MaxLineLen }

\* answers to the "Press any key" prompt, without the newline
StartInputs == { <<>>, <<"q">>, <<" ", "q">>, <<"a">>, <<"q", "a">> }

\* terminal settings Run can find at its start: the usual line mode, and line
\* mode with echo off
TermStates == {"cooked", "noecho"}

DigitValue == [c \in {"0", "1", "5"} |-> IF c = "0" THEN 0 ELSE IF c = "1" THEN 1 ELSE 5]

RECURSIVE TrimLeft(_)
TrimLeft(s) == IF s # <<>> /\ Head(s) = " " THEN TrimLeft(Tail(s)) ELSE s

RECURSIVE TrimRight(_)
TrimRight(s) ==
    IF s # <<>> /\ s[Len(s)] = " " THEN TrimRight(SubSeq(s, 1, Len(s) - 1)) ELSE s

\* strings.TrimSpace
TrimSpace(s) == TrimRight(TrimLeft(s))

RECURSIVE ScanDigits(_, _)
\* the value of the longest run of digits at the start of s, after acc
ScanDigits(s, acc) ==
    IF s # <<>> /\ Head(s) \in DOMAIN DigitValue
    THEN ScanDigits(Tail(s), 10 * acc + DigitValue[Head(s)])
    ELSE acc

\* fmt.Sscanf(s, "%d", &num): an optional sign, then at least one digit; what
\* follows the digits is left unread
Sscanf(s) ==
    LET t      == TrimLeft(s)
        signed == t # <<>> /\ Head(t) = "-"
        d      == IF signed THEN Tail(t) ELSE t
    IN  IF d # <<>> /\ Head(d) \in DOMAIN DigitValue
        THEN [ok |-> TRUE, num |-> IF signed THEN 0 - ScanDigits(d, 0) ELSE ScanDigits(d, 0)]
        ELSE [ok |-> FALSE, num |-> 0]

\* readSingleChar: the byte it returns for a first byte b and, after an ESC,
\* the bytes seq of the 2-byte read
readSingleChar(b, seq) ==
    IF b = "EOF" THEN "NUL"
    ELSE IF b = "ESC"
    THEN IF Len(seq) >= 2 /\ seq[1] = "["
         THEN CASE seq[2] = "A" -> "k"
                [] seq[2] = "B" -> "j"
                [] seq[2] = "C" -> "j"
                [] seq[2] = "D" -> "k"
                [] OTHER -> "ESC"
         ELSE "ESC"
    ELSE b

\* the reads of one turn of the main loop: the first byte, after an ESC the
\* 2-byte read of readSingleChar, and when that returns ESC the 2-byte read
\* of handleArrowKeys
KeyEvents ==
    UNION { IF b # "ESC"
            THEN { [b |-> b, seq |-> <<>>, buf |-> <<>>] }
            ELSE UNION { IF readSingleChar(b, seq) = "ESC"
                         THEN { [b |-> b, seq |-> seq, buf |-> buf] : buf \in EscapeReads }
                         ELSE { [b |-> b, seq |-> seq, buf |-> <<>>] } :
                         seq \in EscapeReads } :
            b \in KeyBytes }

NextPageMutant(page, n) == page + 1

\* if d.currentPage < len(d.textPages)-1 { d.currentPage++ }
NextPage(page, n) == IF page < n - 1 THEN page + 1 ELSE page

\* if d.currentPage > 0 { d.currentPage-- }
PrevPage(page) == IF page > 0 THEN page - 1 ELSE page

\* handleArrowKeys: currentPage after the 2-byte read delivered buf
handleArrowKeys(page, n, buf) ==
    IF Len(buf) >= 2 /\ buf[1] = "["
    THEN CASE buf[2] = "B" -> PrevPage(page)
           [] buf[2] = "A" -> NextPage(page, n)
           [] buf[2] = "C" -> NextPage(page, n)
           [] buf[2] = "D" -> PrevPage(page)
           [] OTHER -> page
    ELSE page

\* goToPage: currentPage after the line was read
GoToTarget(page, n, line) ==
    LET scan == Sscanf(TrimSpace(line))
    IN  IF scan.ok /\ scan.num >= 1 /\ scan.num <= n THEN scan.num - 1 ELSE page

restoreTerminalMutant(old, term) == term

\* restoreTerminal: the terminal mode after term.Restore of the saved state
restoreTerminal(old, term) == IF old # "nil" THEN old ELSE term

\* the deferred calls of Run, last registered first: show the cursor,
\* restoreTerminal(oldState) when raw mode was set, cleanup, doc.Close
RunDefers(v, how) ==
    [v EXCEPT !.pc = "returned",
              !.term = restoreTerminal(v.runOldState, v.term),
              !.cursorHidden = FALSE,
              !.tempDir = FALSE,
              !.docOpen = FALSE,
              !.exit = how]

\* displayCurrentPage: reads d.textPages[d.currentPage]; an image or mixed page
\* creates the temp directory (made) unless MkdirAll fails
displayCurrentPage(v, made) ==
    [v EXCEPT !.pc = "key",
              !.displayed = v.currentPage,
              !.indexOk = v.currentPage >= 0 /\ v.currentPage < v.numPages,
              !.tempDir = v.tempDir \/ made,
              !.madeTempDir = v.madeTempDir \/ made]

ViewerInit ==
    /\ cfg \in [fitMode : {"auto"}, darkMode : {""}, scaleFactor : { <<1, 1>> },
                probe : RenderProbes, termType : {"kitty"}, pages : {<<>>}]
    /\ call = NoCall
    /\ plan = NoPlan
    /\ RenderIdle
    /\ OthersIdle
    /\ ShownIdle /\ PickerIdle /\ WrappedIdle
    /\ \E n \in 1..MaxPages, tty \in BOOLEAN, t \in TermStates :
         viewer = [pc |-> "prompt", numPages |-> n, currentPage |-> 0, isTerminal |-> tty,
                   term |-> t, initialTerm |-> t, oldState |-> "nil", runOldState |-> "nil",
                   cursorHidden |-> FALSE, tempDir |-> FALSE, madeTempDir |-> FALSE,
                   docOpen |-> TRUE,
                   displayed |-> -1, indexOk |-> TRUE, key |-> <<>>, before |-> 0,
                   line |-> <<>>, exit |-> "none"]

\* Run up to the first wait of the main loop: the prompt, setRawMode, the
\* cursor, currentPage = 0, the first displayCurrentPage
StartReading ==
    /\ viewer.pc = "prompt"
    /\ \E input \in StartInputs, made \in BOOLEAN :
         IF TrimSpace(input) = <<"q">>
         THEN viewer' = RunDefers(viewer, "declined")
         ELSE IF ~viewer.isTerminal
         THEN \* term.MakeRaw fails: "Error setting raw mode"
              viewer' = RunDefers(viewer, "raw-mode-error")
         ELSE viewer' = displayCurrentPage(
                            [viewer EXCEPT !.term = "raw", !.oldState = viewer.term,
                                           !.runOldState = viewer.term,
                                           !.cursorHidden = TRUE, !.currentPage = 0],
                            made)
    /\ UNCHANGED <<cfg, call, plan, renderVars, otherVars, shown, picker, wrapped>>

\* one turn of the main loop: readSingleChar, handleInput, and then either
\* the return of Run, the next displayCurrentPage, or the wait inside
\* goToPage or showHelp
HandleKey ==
    /\ viewer.pc = "key"
    /\ \E ev \in KeyEvents, made \in BOOLEAN :
         LET c == readSingleChar(ev.b, ev.seq)
             buf == ev.buf
             v == [viewer EXCEPT !.key = <<c>>, !.before = viewer.currentPage, !.line = <<>>]
             n == viewer.numPages
         IN  CASE c = "q" -> viewer' = RunDefers(v, "quit")
               [] c \in {"j", " "} ->
                    viewer' = displayCurrentPage(
                                  [v EXCEPT !.currentPage = NextPage(v.currentPage, n)], made)
               [] c = "k" ->
                    viewer' = displayCurrentPage(
                                  [v EXCEPT !.currentPage = PrevPage(v.currentPage)], made)
               [] c = "g" ->
                    viewer' = [v EXCEPT !.pc = "line",
                                        !.term = restoreTerminal(v.oldState, v.term)]
               [] c = "h" -> viewer' = [v EXCEPT !.pc = "help"]
               [] c = "ESC" ->
                    viewer' = displayCurrentPage(
                                  [v EXCEPT !.key = <<"ESC">> \o buf,
                                            !.currentPage = handleArrowKeys(v.currentPage, n, buf)],
                                  made)
               [] OTHER -> viewer' = displayCurrentPage(v, made)
    /\ UNCHANGED <<cfg, call, plan, renderVars, otherVars, shown, picker, wrapped>>

\* the rest of goToPage once the line has arrived: Sscanf, the range test,
\* setRawMode; then the next displayCurrentPage
GoToPage ==
    /\ viewer.pc = "line"
    /\ \E line \in GoToLines, made \in BOOLEAN :
         viewer' = displayCurrentPage(
                       [viewer EXCEPT !.currentPage = GoToTarget(viewer.currentPage,
                                                                 viewer.numPages, line),
                                      !.line = line,
                                      !.term = "raw",
                                      !.oldState = viewer.term],
                       made)
    /\ UNCHANGED <<cfg, call, plan, renderVars, otherVars, shown, picker, wrapped>>

\* the rest of showHelp: readSingleChar, whose result is dropped; then the
\* next displayCurrentPage
LeaveHelp ==
    /\ viewer.pc = "help"
    /\ \E b \in KeyBytes, made \in BOOLEAN :
         viewer' = displayCurrentPage([viewer EXCEPT !.key = <<"help", b>>], made)
    /\ UNCHANGED <<cfg, call, plan, renderVars, otherVars, shown, picker, wrapped>>

ViewerNext == StartReading \/ HandleKey \/ GoToPage \/ LeaveHelp

SpecViewer == ViewerInit /\ [][ViewerNext]_vars

\* the viewer is past a key of the main loop
KeyHandled == viewer # NoViewer /\ viewer.key # <<>>

\* the last key was a next-page key: j, space, or an arrow that pages forward
NextKey ==
    viewer.key \in { <<"j">>, <<" ">>, <<"ESC", "[", "A">>, <<"ESC", "[", "C">> }

\* the last key was a previous-page key
PrevKey ==
    viewer.key \in { <<"k">>, <<"ESC", "[", "B">>, <<"ESC", "[", "D">> }

\* the go-to prompt has been answered with something that is not a page number
GoToRejected ==
    /\ viewer.key = <<"g">> /\ viewer.pc = "key"
    /\ LET scan == Sscanf(TrimSpace(viewer.line))
       IN  ~scan.ok \/ scan.num < 1 \/ scan.num > viewer.numPages

(* C23: after any sequence of viewer keys currentPage is within             *)
(* 0..len(textPages)-1 (and so is every index displayCurrentPage uses);     *)
(* next at the last page, previous at the first page and a go-to with a     *)
(* non-number or a number outside 1..len(textPages) leave currentPage       *)
(* unchanged; Run leaves its loop only on q.                                *)
C23_PageInRange ==
    viewer # NoViewer =>
        /\ viewer.currentPage >= 0 /\ viewer.currentPage <= viewer.numPages - 1
        /\ viewer.indexOk
        /\ (KeyHandled /\ NextKey /\ viewer.before = viewer.numPages - 1)
               => viewer.currentPage = viewer.before
        /\ (KeyHandled /\ PrevKey /\ viewer.before = 0)
               => viewer.currentPage = viewer.before
        /\ (KeyHandled /\ GoToRejected) => viewer.currentPage = viewer.before
        /\ (viewer.pc = "returned" /\ viewer.exit \notin {"declined", "raw-mode-error"})
               => viewer.key = <<"q">>
        /\ (viewer.pc # "returned" /\ KeyHandled) => viewer.key # <<"q">>

\* on the last of four pages the go-to prompt was answered with 5
C23_Witness ==
    /\ KeyHandled /\ GoToRejected
    /\ viewer.numPages = 4 /\ viewer.before = 3 /\ viewer.currentPage = 3
    /\ viewer.line = <<"5">>

\* Run has switched the terminal to raw mode
RawModeSet == viewer # NoViewer /\ viewer.runOldState # "nil"

(* C28: once Run has set raw mode, the terminal is in raw mode whenever the *)
(* main loop (or the help screen) waits for a key; the go-to prompt reads   *)
(* its line with the terminal restored to the state saved before raw mode,  *)
(* and raw mode is on again at the next wait; and when Run has returned the *)
(* terminal is back in its state from before raw mode and the temp          *)
(* directory is gone.                                                       *)
C28_RawModeLifecycle ==
    RawModeSet =>
        /\ viewer.pc \in {"key", "help"} => viewer.term = "raw"
        /\ viewer.pc = "line" => viewer.term = viewer.initialTerm
        /\ viewer.pc = "returned" =>
               /\ viewer.term = viewer.initialTerm
               /\ ~viewer.tempDir
               /\ ~viewer.cursorHidden
        /\ viewer.runOldState = viewer.initialTerm
        /\ viewer.oldState = viewer.initialTerm

\* Run has returned on q after a page image had created the temp directory,
\* on a terminal that had echo off before
C28_Witness ==
    /\ RawModeSet
    /\ viewer.pc = "returned" /\ viewer.exit = "quit"
    /\ viewer.madeTempDir /\ ~viewer.tempDir
    /\ viewer.initialTerm = "noecho" /\ viewer.term = "noecho"

---------------------------------------------------------------------------
(* SpecPicker: FilePicker.Run over a fixed list of scanned files, with       *)
(* every key of the sets, for several terminal heights                       *)

NumFiles == 18
MaxQueryLen == 2

Letters == <<"a", "b", "c">>

\* fs.files: nine files below the home directory "h" and nine below "r"
ScannedFiles ==
    [i \in 1..NumFiles |->
        << IF i <= NumFiles \div 2 THEN "h" ELSE "r",
           Letters[(((i - 1) \div 3) % 3) + 1],
           Letters[((i - 1) % 3) + 1] >>]

\* getDisplayPath: the home directory prefix is replaced by "~"
getDisplayPath(path) == IF Head(path) = "h" THEN <<"~">> \o Tail(path) ELSE path

RECURSIVE IsSubsequence(_, _)
\* the characters of q occur in s in this order
IsSubsequence(q, s) ==
    IF q = <<>> THEN TRUE
    ELSE IF s = <<>> THEN FALSE
    ELSE IF Head(q) = Head(s) THEN IsSubsequence(Tail(q), Tail(s))
    ELSE IsSubsequence(q, Tail(s))

RECURSIVE FuzzyFind(_, _, _)
\* fuzzy.Find(query, displayPaths), from index i on: a result for every path
\* that has the characters of the query in order.  The library's scores, which
\* only order the results, are not modelled: matches keep the order of the files.
FuzzyFind(query, files, i) ==
    IF i > Len(files) THEN <<>>
    ELSE (IF IsSubsequence(query, getDisplayPath(files[i]))
          THEN << [Path |-> files[i], RelativePath |-> getDisplayPath(files[i])] >>
          ELSE <<>>) \o FuzzyFind(query, files, i + 1)

\* FileSearcher.Search
Search(query) ==
    IF query = <<>>
    THEN [i \in 1..NumFiles |->
             [Path |-> ScannedFiles[i], RelativePath |-> getDisplayPath(ScannedFiles[i])]]
    ELSE FuzzyFind(query, ScannedFiles, 1)

\* heights term.GetSize reports to NewFilePicker
PickerHeights == {8, 10, 24}

\* printable characters typed into the query
QueryChars == {"a", "c", "~"}

\* what readChar returns, by case of Run's switch
PickerKeys == {"ctrl-c", "esc", "backspace", "enter", "tab", "char", "other"}

\* the visible lines ensureSelectedVisible works with: headerLines = 3
EnsureVisibleLines(termHeight) == termHeight - 3 - 1

\* the visible lines render works with: headerLines = 5
RenderVisibleLines(termHeight) == termHeight - 5 - 2

\* ensureSelectedVisible
ensureSelectedVisible(p) ==
    LET visibleLines == EnsureVisibleLines(p.termHeight)
    IN  IF p.selectedIndex < p.displayOffset
        THEN [p EXCEPT !.displayOffset = p.selectedIndex]
        ELSE IF p.selectedIndex >= p.displayOffset + visibleLines
        THEN [p EXCEPT !.displayOffset = p.selectedIndex - visibleLines + 1]
        ELSE p

updateResultsMutant(p) == [p EXCEPT !.results = Search(p.query)]

\* updateResults
updateResults(p) ==
    [p EXCEPT !.results = Search(p.query), !.selectedIndex = 0, !.displayOffset = 0]

\* render: the indexes of the results it draws
RenderedIndexes(p) ==
    LET endIndex == IF p.displayOffset + RenderVisibleLines(p.termHeight) > Len(p.results)
                    THEN Len(p.results)
                    ELSE p.displayOffset + RenderVisibleLines(p.termHeight)
    IN  IF Len(p.results) = 0 THEN {}
        ELSE { i \in 0..(Len(p.results) - 1) : p.displayOffset <= i /\ i < endIndex }

\* render, once more around the loop
render(p) == [p EXCEPT !.drawn = RenderedIndexes(p)]

\* return from Run with its deferred term.Restore and cursor
PickerReturn(p, path, err) ==
    [p EXCEPT !.pc = "returned", !.path = path, !.err = err, !.term = "cooked"]

\* handleEscapeSequence for a 2-byte read that delivered seq
handleEscapeSequence(p, seq) ==
    IF Len(seq) >= 2 /\ seq[1] = "["
    THEN CASE seq[2] = "A" ->
                 IF p.selectedIndex > 0
                 THEN ensureSelectedVisible([p EXCEPT !.selectedIndex = p.selectedIndex - 1])
                 ELSE p
           [] seq[2] = "B" ->
                 IF p.selectedIndex < Len(p.results) - 1
                 THEN ensureSelectedVisible([p EXCEPT !.selectedIndex = p.selectedIndex + 1])
                 ELSE p
           [] OTHER -> p
    ELSE p

PickerInit ==
    /\ cfg \in [fitMode : {"auto"}, darkMode : {""}, scaleFactor : { <<1, 1>> },
                probe : RenderProbes, termType : {"kitty"}, pages : {<<>>}]
    /\ call = NoCall
    /\ plan = NoPlan
    /\ RenderIdle
    /\ OthersIdle
    /\ ViewerIdle /\ ShownIdle /\ WrappedIdle
    /\ \E h \in PickerHeights, tty \in BOOLEAN :
         picker = [pc |-> "start", isTerminal |-> tty, term |-> "cooked",
                   query |-> <<>>, results |-> <<>>, selectedIndex |-> 0,
                   displayOffset |-> 0, termHeight |-> h, drawn |-> {},
                   key |-> "none", seq |-> <<>>, before |-> <<>>, beforeIndex |-> 0,
                   path |-> <<>>, err |-> "none"]

\* Run up to its first readChar: term.MakeRaw, updateResults, render
StartPicker ==
    /\ picker.pc = "start"
    /\ picker' = IF ~picker.isTerminal
                 THEN PickerReturn(picker, <<>>, "raw-mode-error")
                 ELSE render(updateResults([picker EXCEPT !.pc = "key", !.term = "raw"]))
    /\ UNCHANGED <<cfg, call, plan, renderVars, otherVars, viewer, shown, wrapped>>

\* one turn of Run's loop: readChar, the switch, and render or the return
PickerKey ==
    /\ picker.pc = "key"
    /\ \E k \in PickerKeys, seq \in EscapeReads, c \in QueryChars :
         LET p == [picker EXCEPT !.key = k, !.seq = IF k = "esc" THEN seq ELSE <<>>,
                                 !.before = picker.query,
                                 !.beforeIndex = picker.selectedIndex]
         IN  /\ (k # "esc" => seq = <<>>)
             /\ (k # "char" => c = "a")
             /\ (k = "char" => Len(picker.query) < MaxQueryLen)
             /\ picker' =
                  CASE k = "ctrl-c" -> PickerReturn(p, <<>>, "cancelled")
                    [] k = "esc" ->
                         IF seq = <<>>
                         THEN PickerReturn(p, <<>>, "cancelled")
                         ELSE render(handleEscapeSequence(p, seq))
                    [] k = "backspace" ->
                         IF Len(p.query) > 0
                         THEN render(updateResults(
                                  [p EXCEPT !.query = SubSeq(p.query, 1, Len(p.query) - 1)]))
                         ELSE render(p)
                    [] k = "enter" ->
                         IF Len(p.results) > 0 /\ p.selectedIndex < Len(p.results)
                         THEN PickerReturn(p, p.results[p.selectedIndex + 1].Path, "nil")
                         ELSE render(p)
                    [] k = "tab" ->
                         IF Len(p.results) > 0
                         THEN render(ensureSelectedVisible(
                                  [p EXCEPT !.selectedIndex =
                                                (p.selectedIndex + 1) % Len(p.results)]))
                         ELSE render(p)
                    [] k = "char" ->
                         render(updateResults([p EXCEPT !.query = Append(p.query, c)]))
                    [] OTHER -> render(p)
    /\ UNCHANGED <<cfg, call, plan, renderVars, otherVars, viewer, shown, wrapped>>

PickerNext == StartPicker \/ PickerKey

SpecPicker == PickerInit /\ [][PickerNext]_vars

\* the picker has rendered and waits for a key
PickerWaiting == picker # NoPicker /\ picker.pc = "key"

(* C24: whenever the picker waits for a key with results to show, the       *)
(* selected result is one of those render has drawn:                        *)
(* displayOffset <= selectedIndex < displayOffset + termHeight - 7.         *)
(* ensureSelectedVisible scrolls for a window of termHeight - 4 lines, so   *)
(* the selection can sit up to three results below what render draws.       *)
C24_SelectedDrawn ==
    (PickerWaiting /\ Len(picker.results) > 0) =>
        /\ picker.displayOffset <= picker.selectedIndex
        /\ picker.selectedIndex < picker.displayOffset + (picker.termHeight - 7)
        /\ picker.selectedIndex \in picker.drawn

\* on a 24-line terminal with all 18 files listed, the selection has moved
\* down to the last one: nothing scrolled, and render drew only the first 17
C24_Witness ==
    /\ PickerWaiting
    /\ picker.termHeight = 24 /\ picker.query = <<>> /\ Len(picker.results) = 18
    /\ picker.selectedIndex = 17 /\ picker.displayOffset = 0
    /\ picker.drawn = 0..16

\* the query changed with the last key
QueryChanged ==
    \/ picker.key = "char"
    \/ picker.key = "backspace" /\ picker.before # <<>>

(* C25: in the file picker 0 <= selectedIndex always, and selectedIndex <   *)
(* len(results) whenever results is non-empty; a typed printable character  *)
(* and a backspace on a non-empty query change the query, recompute results *)
(* and reset selectedIndex and displayOffset to 0; Run returns a path only  *)
(* on Enter with non-empty results, and the path is                         *)
(* results[selectedIndex].Path.                                             *)
C25_SelectionInResults ==
    (picker # NoPicker /\ picker.pc # "start") =>
        /\ picker.selectedIndex >= 0
        /\ Len(picker.results) > 0 => picker.selectedIndex < Len(picker.results)
        /\ QueryChanged =>
               /\ picker.query # picker.before
               /\ picker.results = Search(picker.query)
               /\ picker.selectedIndex = 0
               /\ picker.displayOffset = 0
        /\ (picker.key = "enter" /\ Len(picker.results) > 0) =>
               /\ picker.pc = "returned" /\ picker.err = "nil"
               /\ picker.path = picker.results[picker.selectedIndex + 1].Path
        /\ (picker.pc = "returned" /\ picker.err = "nil") =>
               /\ picker.key = "enter" /\ Len(picker.results) > 0
               /\ picker.path = picker.results[picker.selectedIndex + 1].Path
        /\ (picker.pc = "returned" /\ picker.err # "nil") => picker.path = <<>>

\* with the query "a" typed and the third match selected, Enter returned that
\* match's path, which differs from the path the list displays
C25_Witness ==
    /\ picker # NoPicker /\ picker.pc = "returned" /\ picker.key = "enter"
    /\ picker.query = <<"a">> /\ picker.selectedIndex = 2
    /\ picker.path = picker.results[3].Path
    /\ picker.path # picker.results[3].RelativePath
    /\ picker.path \in { ScannedFiles[i] : i \in 1..NumFiles }

---------------------------------------------------------------------------
(* SpecDisplay: displayCurrentPage on every page content of the sets.  The  *)
(* text of a page is given by the counts of its whitespace-separated words: *)
(* one-byte words, words of one character that takes several bytes in       *)
(* UTF-8 (a bullet, a dash, an accented letter), and longer words.          *)

PageTexts ==
    [err : BOOLEAN, narrow : {0, 3}, wide : {0, 1, 3, 50}, longer : {0, 2, 3, 19, 20, 49, 50}]

\* what d.doc.Image returns for the page and what the sampling of
\* hasNonBlankContent and checkColorVariance finds in it
PageBitmaps ==
    [err : BOOLEAN, dx : {49, 50}, dy : {49, 50}, nonWhite : {19, 20}, variance : {100, 101}]

\* len(strings.Fields(strings.TrimSpace(text)))
FieldCount(text) == text.narrow + text.wide + text.longer

\* textWordCount: the words with len(word) > 1, a length in bytes
textWordCount(text) == IF text.err THEN 0 ELSE text.wide + text.longer

\* hasText
hasText(text) == ~text.err /\ FieldCount(text) >= 3

\* pageHasVisualContent
pageHasVisualContent(img) ==
    IF img.err THEN FALSE
    ELSE IF img.dx < 50 \/ img.dy < 50 THEN FALSE
    ELSE img.nonWhite >= 20 \/ img.variance > 100

IsMinimalTextMutant(w) == w >= 3 /\ w <= 20

\* textWordCount >= 3 && textWordCount < 20
IsMinimalText(w) == w >= 3 /\ w < 20

\* getPageContentType
getPageContentType(text, img) ==
    LET w == textWordCount(text)
        hasVisual == pageHasVisualContent(img)
    IN  IF w >= 50 THEN "text"
        ELSE IF IsMinimalText(w) /\ hasVisual THEN "mixed"
        ELSE IF w < 3 /\ hasVisual THEN "image"
        ELSE IF hasText(text) THEN "text"
        ELSE "text"

\* the display function displayCurrentPage's switch selects
DisplayFor(contentType) ==
    CASE contentType = "text" -> "displayTextPage"
      [] contentType = "image" -> "displayImagePage"
      [] contentType = "mixed" -> "displayMixedPage"
      [] OTHER -> "displayTextPage"

\* the calls of renderPageImage a display function makes
RenderCallsOf(display) ==
    IF display \in {"displayImagePage", "displayMixedPage"} THEN 1 ELSE 0

DisplayInit ==
    /\ cfg \in [fitMode : {"auto"}, darkMode : {""}, scaleFactor : { <<1, 1>> },
                probe : RenderProbes, termType : {"kitty"}, pages : {<<>>}]
    /\ call = NoCall
    /\ plan = NoPlan
    /\ RenderIdle
    /\ OthersIdle
    /\ ViewerIdle /\ PickerIdle /\ WrappedIdle
    /\ \E text \in PageTexts, img \in PageBitmaps :
         shown = [contentType |-> "pending", text |-> text, img |-> img,
                  display |-> "none", renderCalls |-> 0]

\* displayCurrentPage: getPageContentType and the switch on its result
DisplayCurrentPage ==
    /\ shown.contentType = "pending"
    /\ LET contentType == getPageContentType(shown.text, shown.img)
       IN  shown' = [shown EXCEPT !.contentType = contentType,
                                  !.display = DisplayFor(contentType),
                                  !.renderCalls = RenderCallsOf(DisplayFor(contentType))]
    /\ UNCHANGED <<cfg, call, plan, renderVars, otherVars, viewer, picker, wrapped>>

DisplayNext == DisplayCurrentPage

SpecDisplay == DisplayInit /\ [][DisplayNext]_vars

\* the page has been classified and displayed
PageShown == shown # NoShown /\ shown.contentType # "pending"

\* the classification the claim describes, for a count w and a visual flag v
ClassOf(w, v) ==
    IF w >= 50 THEN "text"
    ELSE IF w >= 3 /\ w < 20 /\ v THEN "mixed"
    ELSE IF w < 3 /\ v THEN "image"
    ELSE "text"

---------------------------------------------------------------------------
(* SpecReflow: wrapText and reflowText (of a PDF) on every text and width   *)
(* of the sets.  A text is a sequence of tokens: 0 is a newline, n > 0 a    *)
(* word of n bytes, with one space between adjacent words.  An output line  *)
(* is a sequence of pieces [id, off, len]: len bytes of the word at token   *)
(* id, from byte off on, joined by single spaces.                           *)

MaxTokens == 4

Tokens == {0, 3, 9, 25}

Texts == UNION { [1..n -> Tokens] : n \in 0..MaxTokens }

\* requested widths: none, below the floor of wrapText, at it, above it
Widths == {0, 5, 19, 20, 24}

RECURSIVE WordsFrom(_, _, _)
\* strings.Fields on the tokens i..j of text: the words, whole
WordsFrom(text, i, j) ==
    IF i > j THEN <<>>
    ELSE (IF text[i] = 0 THEN <<>> ELSE << [id |-> i, off |-> 0, len |-> text[i]] >>)
         \o WordsFrom(text, i + 1, j)

RECURSIVE SumLen(_)
SumLen(line) == IF line = <<>> THEN 0 ELSE Head(line).len + SumLen(Tail(line))

\* len of an output line, or currentLine.Len(), in bytes
LineLen(line) == IF line = <<>> THEN 0 ELSE SumLen(line) + Len(line) - 1

RECURSIVE BreakWord(_, _)
\* for len(word) > width { lines = append(lines, word[:width]); word = word[width:] }
\* the lines appended, and last the remaining part
BreakWord(word, width) ==
    IF word.len > width
    THEN << << [word EXCEPT !.len = width] >> >>
         \o BreakWord([word EXCEPT !.off = word.off + width, !.len = word.len - width], width)
    ELSE << <<word>> >>

ProposedLengthMutant(cur, word) == LineLen(cur) + word.len

\* proposedLength: the current line, a space if it has content, the word
ProposedLength(cur, word) ==
    LineLen(cur) + (IF LineLen(cur) > 0 THEN 1 ELSE 0) + word.len

\* lines with the current line finished, if it has content
FinishLine(lines, cur) == IF LineLen(cur) > 0 THEN Append(lines, cur) ELSE lines

RECURSIVE WrapWords(_, _, _, _)
\* the loop of wrapText over the words left, with lines and currentLine
WrapWords(words, width, lines, cur) ==
    IF words = <<>>
    THEN FinishLine(lines, cur)
    ELSE LET word == Head(words)
         IN  IF word.len > width
             THEN LET parts == BreakWord(word, width)
                  IN  WrapWords(Tail(words), width,
                                FinishLine(lines, cur) \o SubSeq(parts, 1, Len(parts) - 1),
                                parts[Len(parts)])
             ELSE IF ProposedLength(cur, word) <= width
             THEN WrapWords(Tail(words), width, lines, Append(cur, word))
             ELSE WrapWords(Tail(words), width, FinishLine(lines, cur), <<word>>)

\* the width wrapText works with: 80 for width <= 0, at least 20
WrapWidth(width) ==
    LET w == IF width <= 0 THEN 80 ELSE width
    IN  IF w < 20 THEN 20 ELSE w

\* wrapText on the words of a string
wrapText(words, width) ==
    IF words = <<>> THEN << <<>> >> ELSE WrapWords(words, WrapWidth(width), <<>>, <<>>)

RECURSIVE SplitLines(_, _, _)
\* strings.Split(text, "\n"): the token ranges <<from, to>> of the lines from
\* token i on, the current line having started at token from
SplitLines(text, i, from) ==
    IF i > Len(text) THEN << <<from, Len(text)>> >>
    ELSE IF text[i] = 0 THEN << <<from, i - 1>> >> \o SplitLines(text, i + 1, i + 1)
    ELSE SplitLines(text, i + 1, from)

RECURSIVE SplitParagraphs(_, _, _)
\* strings.Split(text, "\n\n"): the token ranges of the paragraphs
SplitParagraphs(text, i, from) ==
    IF i > Len(text) THEN << <<from, Len(text)>> >>
    ELSE IF text[i] = 0 /\ i < Len(text) /\ text[i + 1] = 0
    THEN << <<from, i - 1>> >> \o SplitParagraphs(text, i + 2, i + 2)
    ELSE SplitParagraphs(text, i + 1, from)

\* the lines of the text that have content and are shorter than termWidth / 2
ShortLineCount(text, termWidth) ==
    LET lines == SplitLines(text, 1, 1)
    IN  Cardinality({ k \in 1..Len(lines) :
                        LET n == LineLen(WordsFrom(text, lines[k][1], lines[k][2]))
                        IN  n > 0 /\ n < termWidth \div 2 })

\* float64(shortLineCount)/float64(len(lines)) > 0.3
hasShortLines(text, termWidth) ==
    10 * ShortLineCount(text, termWidth) > 3 * Len(SplitLines(text, 1, 1))

RECURSIVE PreserveLines(_, _, _, _)
\* the branch of reflowText that keeps the line breaks, from line k on
PreserveLines(text, lines, k, termWidth) ==
    IF k > Len(lines) THEN <<>>
    ELSE LET trimmed == WordsFrom(text, lines[k][1], lines[k][2])
         IN  (IF trimmed = <<>> THEN << <<>> >>
              ELSE IF LineLen(trimmed) > termWidth THEN wrapText(trimmed, termWidth)
              ELSE <<trimmed>>)
             \o PreserveLines(text, lines, k + 1, termWidth)

RECURSIVE ReflowParagraphs(_, _, _, _)
\* the branch of reflowText that reflows paragraphs, from paragraph k on
ReflowParagraphs(text, paragraphs, k, termWidth) ==
    IF k > Len(paragraphs) THEN <<>>
    ELSE LET words == WordsFrom(text, paragraphs[k][1], paragraphs[k][2])
         IN  (IF words = <<>> THEN << <<>> >>
              ELSE wrapText(words, termWidth) \o << <<>> >>)
             \o ReflowParagraphs(text, paragraphs, k + 1, termWidth)

RECURSIVE DropTrailingEmpty(_)
DropTrailingEmpty(lines) ==
    IF lines # <<>> /\ lines[Len(lines)] = <<>>
    THEN DropTrailingEmpty(SubSeq(lines, 1, Len(lines) - 1))
    ELSE lines

\* reflowText for d.fileType = "pdf"
reflowText(text, width) ==
    LET termWidth == IF width <= 0 THEN 80 ELSE width
    IN  DropTrailingEmpty(
            IF hasShortLines(text, termWidth)
            THEN PreserveLines(text, SplitLines(text, 1, 1), 1, termWidth)
            ELSE ReflowParagraphs(text, SplitParagraphs(text, 1, 1), 1, termWidth))

ReflowInit ==
    /\ cfg \in [fitMode : {"auto"}, darkMode : {""}, scaleFactor : { <<1, 1>> },
                probe : RenderProbes, termType : {"kitty"}, pages : {<<>>}]
    /\ call = NoCall
    /\ plan = NoPlan
    /\ RenderIdle
    /\ OthersIdle
    /\ ViewerIdle /\ PickerIdle /\ ShownIdle
    /\ \E text \in Texts, width \in Widths :
         wrapped = [text |-> text, width |-> width, lines |-> <<>>, done |-> FALSE,
                    by |-> "none"]

\* d.wrapText(text, width)
WrapText ==
    /\ ~wrapped.done
    /\ wrapped' = [wrapped EXCEPT
                      !.lines = wrapText(WordsFrom(wrapped.text, 1, Len(wrapped.text)),
                                         wrapped.width),
                      !.done = TRUE, !.by = "wrapText"]
    /\ UNCHANGED <<cfg, call, plan, renderVars, otherVars, viewer, shown, picker>>

\* d.reflowText(text, termWidth)
ReflowText ==
    /\ ~wrapped.done
    /\ wrapped' = [wrapped EXCEPT !.lines = reflowText(wrapped.text, wrapped.width),
                                  !.done = TRUE, !.by = "reflowText"]
    /\ UNCHANGED <<cfg, call, plan, renderVars, otherVars, viewer, shown, picker>>

ReflowNext == WrapText \/ ReflowText

SpecReflow == ReflowInit /\ [][ReflowNext]_vars

RECURSIVE Flatten(_)
\* the pieces of all lines, in order
Flatten(lines) == IF lines = <<>> THEN <<>> ELSE Head(lines) \o Flatten(Tail(lines))

RECURSIVE Rejoin(_)
\* the pieces with those that continue one another put back together
Rejoin(pieces) ==
    IF Len(pieces) < 2 THEN pieces
    ELSE IF /\ pieces[1].id = pieces[2].id
            /\ pieces[2].off = pieces[1].off + pieces[1].len
    THEN Rejoin(<< [pieces[1] EXCEPT !.len = pieces[1].len + pieces[2].len] >>
                \o SubSeq(pieces, 3, Len(pieces)))
    ELSE <<pieces[1]>> \o Rejoin(Tail(pieces))

\* wrapText or reflowText has returned
Wrapped == wrapped # NoWrapped /\ wrapped.done

\* the output holds the words of the input, whole or in consecutive pieces,
\* in their order, and nothing else
WordsKept ==
    Rejoin(Flatten(wrapped.lines)) = WordsFrom(wrapped.text, 1, Len(wrapped.text))

\* the longest line returned
LongestLine ==
    IF wrapped.lines = <<>> THEN 0
    ELSE CHOOSE n \in { LineLen(wrapped.lines[k]) : k \in 1..Len(wrapped.lines) } :
             \A k \in 1..Len(wrapped.lines) : LineLen(wrapped.lines[k]) <= n

====
